---- MODULE Spec2Model ----
(***************************************************************************)
(* Terminal Arcade: the screen-stack and event-routing runtime.           *)
(*                                                                         *)
(* The repository holds several revisions of the runtime side by side.    *)
(* Each is modelled as a program of its own; `prog` names the program a    *)
(* behaviour runs and never changes:                                       *)
(*   "app" - src/app.rs driving src/tui.rs (async driver, event bus)       *)
(*   "tui" - src/tui.rs used through its operations, with stop() running   *)
(*           one millisecond at a time                                     *)
(*   "life" - src/tui.rs started, stopped and started again, with stop()   *)
(*           as one step                                                   *)
(*   "mm"  - the Tui-to-App middlemen of src/events/{mod,util}.rs          *)
(*   "core" - the poll-based handlers of src/core/handler.rs ("handler")   *)
(*           and src/core/mod.rs ("mod") with their screens                *)
(*   "ui"  - the stack managers of src/ui/mod.rs ("ui") and                *)
(*           src/ui/screens/handler.rs ("handler") over the screen handle  *)
(*           of src/ui/screens/handle.rs                                   *)
(*   "round" - the owner of src/ui/mod.rs draining and updating in rounds  *)
(*   "handle" - one ScreenHandle of src/ui/screens/handle.rs and the       *)
(*           events routed to it                                           *)
(*   "loop" - Tui::event_loop of src/tui.rs, one select! at a time         *)
(*   "bus" - App::event_loop of src/app.rs over its event bus alone        *)
(*   "scroll" - the ScrollTracker of src/ui/widgets/utils/scroll_tracker.rs *)
(*           and src/ui/components/scroll_tracker.rs                       *)
(*   "search" - the search term of src/ui/screens/game_select.rs and the   *)
(*           keys typed into it                                            *)
(***************************************************************************)
EXTENDS Integers, Sequences, FiniteSets, TLC

(***************************************************************************)
(* Bounds of the model.                                                    *)
(***************************************************************************)
MaxTuiEvents == 3
MaxProduced == 1
MaxRounds == 3
MaxQuits == 2
MaxStopEvents == 1
MaxStarts == 2
MaxInputs == 3
MaxScreens == 2
MaxUiEvents == 3
MaxUiProduced == 2
MaxCoreEvents == 3
MaxSets == 2
MaxTickInputs == 2
MaxLength == 6
MaxOddChars == 1

(***************************************************************************)
(* Program constants.                                                      *)
(***************************************************************************)
SoftBoundMs == 100
HardBoundMs == 200
OneMs == 1
TermByteCap == 100
DocumentedTermCap == 256
SearchesShown == 5

VARIABLES
    prog,               \* which program of the repository runs
    hookRev,            \* which revision of custom_panic_hook is installed
    pc,                 \* position of the main task
    run_state,          \* App::run_state
    tick_event_buffer,  \* App::tick_event_buffer
    event_channel,      \* App::event_channel, the event bus (FIFO)
    result,             \* what App::run is going to return
    term,               \* the terminal device: "cooked", "raw", "alt"
    msgTerm,            \* state of the terminal when the error message was printed
    panicked,           \* a panic has been raised
    tuiQ,               \* Tui::event_sender / Tui::event_receiver channel
    rx_alive,           \* the receiver of the channel (Tui::event_receiver, or the one
                        \* behind Ui::event_sender) has not been dropped
    tasks,              \* the spawned event tasks, by number
    cancelled,          \* the cancellation tokens that were cancelled, by number
    aborted,            \* the tasks JoinHandle::abort was called on
    cancel_timer,       \* stop(): cancel_timer, in ms
    aborting,           \* stop(): aborting
    stop_result,        \* what the last stop() returned
    nEmitted,           \* events emitted by the event tasks so far
    nIn,                \* raw input events read so far (they are numbered)
    nSent,              \* events sent on the bus so far (they are numbered)
    nHandled,           \* number of the bus event that was handled last
    nDelivered,         \* input events handed to App::key / App::mouse so far
    nProduced,          \* events sent by producers other than the driver
    eofSeen,            \* an event task left its loop because the stream closed
    send_error,         \* what became of the last send that failed: "returned", "logged"
    mmRev,              \* which revision of TuiAppMiddleman runs
    input_buffer,       \* TuiAppMiddleman::input_buffer
    mmIn,               \* the kind of the TuiEvent the middleman handled last
    mmOut,              \* what the last TuiAppMiddleman::handle_tui_event gave to the App
    uiRev,              \* which revision of the screen stack manager runs
    ui_run_state,       \* Ui::run_state / ScreenHandler::run_state
    screens,            \* Ui::screens / ScreenHandler::screens; the last one is active
    ui_events,          \* the channel behind Ui::event_sender
    uiLast,             \* the last operation on the stack manager and what it did
    nPushed,            \* screens pushed so far (they are numbered)
    coreRev,            \* which revision of the poll-based Handler runs
    stack,              \* ScreenHandler::screens / Handler::screens; the last one is active
    drawn,              \* the screens rendered in the last frame
    coreLast,           \* the last step of the Handler and what it did
    nReq,               \* calls of set_screen_created so far (they are numbered)
    requested,          \* the requests made of the active screen since the last pass
    spawned,            \* the requests whose screen was spawned, in order
    nRouted,            \* terminal events read so far
    lastEvent,          \* the terminal event read last
    tick_interval,      \* event_loop: tick_interval.tick() would complete now
    render_interval,    \* event_loop: render_interval.tick() would complete now
    event_stream,       \* event_loop: raw events waiting in event_stream
    sent,               \* event_loop: the kinds of the last two events sent, newest first
    routed,             \* ScreenHandle::event: the last event and what the event hook got
    tracker,            \* the ScrollTracker of a list
    scrollLast,         \* the last call on the ScrollTracker and whether a subtraction underflowed
    search_term,        \* GameSelectionScreen::search_term: <<>> or <<the characters>>
    typed               \* the key GameSelectionScreen::event handled last

appVars == <<pc, run_state, tick_event_buffer, event_channel, result, nSent,
             nHandled, nDelivered, nProduced>>
termVars == <<term, msgTerm, panicked>>
taskVars == <<tuiQ, rx_alive, tasks, cancelled, aborted, nEmitted, nIn, eofSeen>>
stopVars == <<cancel_timer, aborting, stop_result>>
mmVars == <<mmRev, input_buffer, mmIn, mmOut>>
uiVars == <<uiRev, ui_run_state, screens, ui_events, uiLast, nPushed>>
coreVars == <<coreRev, stack, drawn, coreLast, nReq, requested, spawned, nRouted,
             lastEvent>>
loopVars == <<tick_interval, render_interval, event_stream, sent>>
scrollVars == <<tracker, scrollLast>>
searchVars == <<search_term, typed>>
vars == <<prog, hookRev, appVars, termVars, taskVars, stopVars, mmVars, uiVars, coreVars,
         send_error, loopVars, routed, scrollVars, searchVars>>

(***************************************************************************)
(* Events.                                                                 *)
(***************************************************************************)
RawKinds == {"Key", "Resize"}
InputKinds == {"Key", "Mouse"}

\* A TuiEvent sent by task t; id numbers the raw input events (0 for the others).
TuiEvent(k, id, t) == [k |-> k, id |-> id, task |-> t]

\* An AppEvent. forced is the flag of Quit, inputs the payload of
\* Buffer (one input) and Events (a batch).
AppEvent(k, forced, inputs) == [k |-> k, forced |-> forced, inputs |-> inputs]

Input(kind, id) == [kind |-> kind, id |-> id]

\* impl From<TuiEvent> for AppEvent (Init is never converted: it panics).
FromTuiEvent(e) ==
    CASE e.k = "Tick" -> AppEvent("Tick", FALSE, <<>>)
      [] e.k = "Render" -> AppEvent("Render", FALSE, <<>>)
      [] e.k = "Error" -> AppEvent("Error", FALSE, <<>>)
      [] e.k = "Resize" -> AppEvent("Resize", FALSE, <<>>)
      [] e.k = "Paste" -> AppEvent("Paste", FALSE, <<>>)
      [] e.k = "Focus" -> AppEvent("Focus", FALSE, <<>>)
      [] e.k = "Key" -> AppEvent("Buffer", FALSE, <<Input("Key", e.id)>>)
      [] e.k = "Mouse" -> AppEvent("Buffer", FALSE, <<Input("Mouse", e.id)>>)

RECURSIVE Flatten(_)
\* The concatenation of a sequence of sequences.
Flatten(ss) == IF ss = <<>> THEN <<>> ELSE Head(ss) \o Flatten(Tail(ss))

\* The sequences over S of length at most n.
SeqsUpTo(S, n) == UNION {[1..k -> S] : k \in 0..n}

\* Event::App(app_event), the only variant that is ever put on the bus.
EventApp(e) == [variant |-> "App", ev |-> e]

\* UnboundedChannel::send: the event goes to the back of the channel. n is the
\* number of sends so far; the new message is numbered n + 1.
Send(ch, msg, n) == Append(ch, [variant |-> msg.variant, ev |-> msg.ev, seq |-> n + 1])

\* A receive that takes the newest message.
RecvBack(ch) == ch[Len(ch)]

\* UnboundedReceiver::try_recv: the front of the channel.
TryRecv(ch) == Head(ch)

\* The channel after a successful try_recv.
AfterRecv(ch) == Tail(ch)

(***************************************************************************)
(* The terminal event tasks (src/tui.rs).                                  *)
(* Task 1 is the empty task of Tui::new; start() spawns the others. Token  *)
(* i is the cancellation token created together with task i.               *)
(***************************************************************************)
Cur == Len(tasks)

\* The tasks run as long as the process does.
ProcessAlive == pc # "done"

\* A handle that reports every task as finished.
AlwaysFinished(t) == TRUE

\* JoinHandle::is_finished of task t.
IsFinished(t) == tasks[t] = "done"

\* The raw terminal device: raw mode, alternate screen.
SetTerminalRulesOutcomes == {"alt", "raw", "cooked"}

\* Tui::reset_terminal_rules: raw mode off, alternate screen left, cursor shown.
ResetTerminalRules == "cooked"

\* Tui::start with the new task left on the token that was just cancelled.
StartStale ==
    /\ cancelled' = cancelled \cup {Cur, Cur + 1}
    /\ tasks' = Append(tasks, "spawned")

\* Tui::start: cancels the current token, makes a new one and spawns a task on it.
Start ==
    /\ cancelled' = cancelled \cup {Cur}
    /\ tasks' = Append(tasks, "spawned")

\* The empty task `async {}` that Tui::new spawns.
TaskNoop ==
    /\ prog \in {"app", "tui", "life"}
    /\ ProcessAlive
    /\ tasks[1] = "spawned"
    /\ tasks' = [tasks EXCEPT ![1] = "done"]
    /\ UNCHANGED <<prog, hookRev, searchVars, routed, scrollVars, loopVars, send_error, coreVars, mmVars, uiVars, appVars, termVars, stopVars, tuiQ, rx_alive,
                   cancelled, aborted, nEmitted, nIn, eofSeen>>

\* event_sender.send(ev) of task t, and where the task goes next: back to the
\* select, or, when the receiver is gone, out of the loop (or of the function,
\* for the Init event) with the error logged; the task returns ().
TaskSend(t, ev) ==
    IF rx_alive
    THEN /\ tuiQ' = Append(tuiQ, ev)
         /\ tasks' = [tasks EXCEPT ![t] = "select"]
         /\ send_error' = send_error
    ELSE /\ tuiQ' = tuiQ
         /\ tasks' = [tasks EXCEPT ![t] = "done"]
         /\ send_error' = "logged"

\* Tui::event_loop before its loop: the Init event.
TaskHello(t) ==
    /\ prog \in {"app", "tui", "life"}
    /\ ProcessAlive
    /\ t > 1
    /\ tasks[t] = "spawned"
    /\ TaskSend(t, TuiEvent("Init", 0, t))
    /\ UNCHANGED <<prog, hookRev, searchVars, routed, scrollVars, loopVars, coreVars, mmVars, uiVars, appVars, termVars, stopVars, rx_alive,
                   cancelled, aborted, nEmitted, nIn, eofSeen>>

\* The branches of the select! that may be taken by task t. The macro polls
\* its branches in random order and takes one that is ready: the cancellation
\* branch is ready once the token is cancelled, the timers and the event
\* stream are ready when time or the user makes them so.
SelectBranches(t) ==
    (IF t \in cancelled THEN {"cancelled"} ELSE {})
        \cup {"tick", "render", "event", "error", "closed"}

\* The kinds of raw terminal events the stream yields: all of them where the
\* driver tells them apart, one where only the Tui is looked at.
StreamKinds == IF prog = "app" THEN RawKinds ELSE {"Key"}

\* How many events the tasks may emit in all.
EmitBound == IF prog = "app" THEN MaxTuiEvents ELSE MaxStopEvents

\* One iteration of the loop of Tui::event_loop.
TaskSelect(t) ==
    /\ prog \in {"app", "tui", "life"}
    /\ ProcessAlive
    /\ tasks[t] = "select"
    /\ \E b \in SelectBranches(t) :
        \/ /\ b = "cancelled"
           /\ tasks' = [tasks EXCEPT ![t] = "done"]
           /\ UNCHANGED <<tuiQ, nEmitted, nIn, eofSeen, send_error>>
        \/ /\ b = "closed"
           /\ tasks' = [tasks EXCEPT ![t] = "done"]
           /\ eofSeen' = TRUE
           /\ UNCHANGED <<tuiQ, nEmitted, nIn, send_error>>
        \/ /\ b \in {"tick", "render", "error"}
           /\ nEmitted < EmitBound
           /\ TaskSend(t, TuiEvent(CASE b = "tick" -> "Tick"
                                     [] b = "render" -> "Render"
                                     [] b = "error" -> "Error", 0, t))
           /\ nEmitted' = nEmitted + 1
           /\ UNCHANGED <<nIn, eofSeen>>
        \/ /\ b = "event"
           /\ nEmitted < EmitBound
           /\ \E k \in StreamKinds :
                IF k \in InputKinds
                THEN /\ TaskSend(t, TuiEvent(k, nIn + 1, t))
                     /\ nIn' = nIn + 1
                ELSE /\ TaskSend(t, TuiEvent(k, 0, t))
                     /\ nIn' = nIn
           /\ nEmitted' = nEmitted + 1
           /\ UNCHANGED eofSeen
    /\ UNCHANGED <<prog, hookRev, searchVars, routed, scrollVars, loopVars, coreVars, mmVars, uiVars, appVars, termVars, stopVars, rx_alive,
                   cancelled, aborted>>

\* JoinHandle::abort takes effect: the task is dropped at an await point.
TaskAborted(t) ==
    /\ prog \in {"app", "tui", "life"}
    /\ ProcessAlive
    /\ t \in aborted
    /\ tasks[t] # "done"
    /\ tasks' = [tasks EXCEPT ![t] = "done"]
    /\ UNCHANGED <<prog, hookRev, searchVars, routed, scrollVars, loopVars, send_error, coreVars, mmVars, uiVars, appVars, termVars, stopVars, tuiQ, rx_alive,
                   cancelled, aborted, nEmitted, nIn, eofSeen>>

(***************************************************************************)
(* The panic hooks.                                                        *)
(***************************************************************************)
\* custom_panic_hook of src/service/panic.rs: resets the terminal rules, then
\* prints the report; of src/panic.rs: prints the report. Both exit the process.
\* The result is <<terminal afterwards, terminal while the report is printed>>.
CustomPanicHook(rev, t) ==
    IF rev = "service"
    THEN <<ResetTerminalRules, ResetTerminalRules>>
    ELSE <<t, t>>

\* A panic: the hook runs and the process exits.
RaisePanic ==
    /\ panicked' = TRUE
    /\ term' = CustomPanicHook(hookRev, term)[1]
    /\ msgTerm' = CustomPanicHook(hookRev, term)[2]
    /\ pc' = "done"

(***************************************************************************)
(* The application driver (src/app.rs), program "app".                     *)
(***************************************************************************)
InLoop == pc \in {"recv", "drain", "check"}

\* App::run up to the event loop: run_state, then Tui::enter.
AppRun ==
    /\ prog = "app"
    /\ pc = "run"
    /\ run_state' = [k |-> "Running", forced |-> FALSE]
    /\ \E t \in SetTerminalRulesOutcomes :
        /\ term' = t
        /\ IF t = "alt"
           THEN /\ Start
                /\ pc' = "recv"
                /\ result' = result
           ELSE /\ pc' = "drop"
                /\ result' = "Err"
                /\ UNCHANGED <<tasks, cancelled>>
    /\ UNCHANGED <<prog, hookRev, searchVars, routed, scrollVars, loopVars, send_error, coreVars, mmVars, uiVars, tick_event_buffer, event_channel, nSent, nHandled,
                   nDelivered, nProduced, msgTerm, panicked, tuiQ, rx_alive, aborted,
                   nEmitted, nIn, eofSeen, stopVars>>

\* The number of senders of the Tui channel: the one the Tui keeps in
\* Tui::event_sender, and the clone of every task that still runs.
SenderCount ==
    (IF rx_alive THEN 1 ELSE 0) + Cardinality({t \in 1..Len(tasks) : t > 1 /\ tasks[t] # "done"})

\* App::handle_tui_event: Tui::next_event().await, then send_app_event.
\* recv() yields None only when the channel is empty and has no sender left.
AppHandleTuiEvent ==
    /\ prog = "app"
    /\ pc = "recv"
    /\ \/ /\ tuiQ # <<>>
          /\ tuiQ' = Tail(tuiQ)
          /\ IF Head(tuiQ).k = "Init"
             THEN UNCHANGED <<event_channel, nSent>>
             ELSE /\ event_channel' = Send(event_channel, EventApp(FromTuiEvent(Head(tuiQ))), nSent)
                  /\ nSent' = nSent + 1
       \/ /\ tuiQ = <<>>
          /\ SenderCount = 0
          /\ UNCHANGED <<tuiQ, event_channel, nSent>>
    /\ pc' = "drain"
    /\ UNCHANGED <<prog, hookRev, searchVars, routed, scrollVars, loopVars, send_error, coreVars, mmVars, uiVars, run_state, tick_event_buffer, result, nHandled,
                   nDelivered, nProduced, termVars, rx_alive, tasks, cancelled, aborted,
                   nEmitted, nIn, eofSeen, stopVars>>

\* An indicate_quit that takes the flag of the latest request.
IndicateQuitLatest(rs, forced) == [k |-> "Quitting", forced |-> forced]

\* App::indicate_quit.
IndicateQuit(rs, forced) ==
    IF rs.k = "Quitting" THEN rs ELSE [k |-> "Quitting", forced |-> forced]

\* A tick that forgets the newest buffered event.
TickDropLast(ch, buffer, n) ==
    IF buffer # <<>>
    THEN <<Send(ch, EventApp(AppEvent("Events", FALSE, SubSeq(buffer, 1, Len(buffer) - 1))), n),
           <<>>, n + 1>>
    ELSE <<ch, buffer, n>>

\* App::tick: the buffered events leave the buffer in one Events event.
\* The result is <<bus, buffer, sends>>.
Tick(ch, buffer, n) ==
    IF buffer # <<>>
    THEN <<Send(ch, EventApp(AppEvent("Events", FALSE, buffer)), n), <<>>, n + 1>>
    ELSE <<ch, buffer, n>>

\* A resize that asks for another resize instead of a render.
ResizeAgain(ch, n) ==
    <<Send(ch, EventApp(AppEvent("Resize", FALSE, <<>>)), n), n + 1>>

\* App::resize, Tui::resize having succeeded: a Render is sent. The result
\* is <<bus, sends>>.
Resize(ch, n) ==
    <<Send(ch, EventApp(AppEvent("Render", FALSE, <<>>)), n), n + 1>>

\* What the while-let of App::handle_app_events binds: the received message,
\* when it is an Event::App.
DrainPattern(m) == m.variant = "App"

\* One iteration of the loop of App::handle_app_events: try_recv, then
\* App::handle_app_event. Tui::clear, draw and resize may fail (I/O).
AppDrainOne ==
    /\ prog \in {"app", "bus"}
    /\ pc = "drain"
    /\ event_channel # <<>>
    /\ LET m == TryRecv(event_channel)
           e == m.ev
           rest == AfterRecv(event_channel)
       IN  /\ nHandled' = m.seq
           /\ IF ~DrainPattern(m)
              THEN /\ event_channel' = rest
                   /\ pc' = "check"
                   /\ UNCHANGED <<run_state, tick_event_buffer, result, nSent, nDelivered>>
              ELSE \E ioOk \in BOOLEAN :
                   /\ (ioOk = FALSE) => e.k \in {"Render", "Resize"}
                   /\ IF ~ioOk
                      THEN /\ event_channel' = rest
                           /\ result' = "Err"
                           /\ pc' = "drop"
                           /\ UNCHANGED <<run_state, tick_event_buffer, nSent, nDelivered>>
                      ELSE /\ pc' = pc
                           /\ result' = result
                           /\ run_state' = IF e.k = "Quit"
                                           THEN IndicateQuit(run_state, e.forced)
                                           ELSE run_state
                           /\ event_channel' =
                                CASE e.k = "Tick" -> Tick(rest, tick_event_buffer, nSent)[1]
                                  [] e.k = "Resize" -> Resize(rest, nSent)[1]
                                  [] OTHER -> rest
                           /\ tick_event_buffer' =
                                CASE e.k = "Tick" -> Tick(rest, tick_event_buffer, nSent)[2]
                                  [] e.k = "Buffer" -> tick_event_buffer \o e.inputs
                                  [] OTHER -> tick_event_buffer
                           /\ nSent' =
                                CASE e.k = "Tick" -> Tick(rest, tick_event_buffer, nSent)[3]
                                  [] e.k = "Resize" -> Resize(rest, nSent)[2]
                                  [] OTHER -> nSent
                           /\ nDelivered' = IF e.k = "Events"
                                            THEN nDelivered + Len(e.inputs)
                                            ELSE nDelivered
    /\ UNCHANGED <<prog, hookRev, searchVars, routed, scrollVars, loopVars, send_error, coreVars, mmVars, uiVars, nProduced, termVars, taskVars, stopVars>>

\* App::handle_app_events ends: try_recv found the bus empty.
AppDrainEnd ==
    /\ prog \in {"app", "bus"}
    /\ pc = "drain"
    /\ event_channel = <<>>
    /\ pc' = "check"
    /\ UNCHANGED <<prog, hookRev, searchVars, routed, scrollVars, loopVars, send_error, coreVars, mmVars, uiVars, run_state, tick_event_buffer, event_channel, result,
                   nSent, nHandled, nDelivered, nProduced, termVars, taskVars, stopVars>>

\* The end of an iteration of App::event_loop: quit and break when Quitting.
AppCheckQuit ==
    /\ prog \in {"app", "bus"}
    /\ pc = "check"
    /\ IF run_state.k = "Quitting"
       THEN /\ run_state' = IndicateQuit(run_state, run_state.forced)
            /\ result' = "Ok"
            /\ pc' = "drop"
       ELSE /\ pc' = "recv"
            /\ UNCHANGED <<run_state, result>>
    /\ UNCHANGED <<prog, hookRev, searchVars, routed, scrollVars, loopVars, send_error, coreVars, mmVars, uiVars, tick_event_buffer, event_channel, nSent, nHandled,
                   nDelivered, nProduced, termVars, taskVars, stopVars>>

\* How many events the producers may send in all.
ProducedBound == IF prog = "app" THEN MaxProduced ELSE MaxQuits

\* A producer that holds a clone of the bus sender sends Quit(forced).
ProducerSendQuit ==
    /\ prog \in {"app", "bus"}
    /\ InLoop
    /\ nProduced < ProducedBound
    /\ \E forced \in BOOLEAN :
         event_channel' = Send(event_channel, EventApp(AppEvent("Quit", forced, <<>>)), nSent)
    /\ nSent' = nSent + 1
    /\ nProduced' = nProduced + 1
    /\ UNCHANGED <<prog, hookRev, searchVars, routed, scrollVars, loopVars, send_error, coreVars, mmVars, uiVars, pc, run_state, tick_event_buffer, result, nHandled,
                   nDelivered, termVars, taskVars, stopVars>>

\* The channel once task t has run up to the cancellation branch inside a
\* stop() that sees it finish: a task that had not run yet sends its Init
\* event on the way, the empty task of Tui::new sends nothing.
RunToCancel(t, q) ==
    IF t > 1 /\ tasks[t] = "spawned" /\ rx_alive
    THEN Append(q, TuiEvent("Init", 0, t))
    ELSE q

\* What Tui::stop can return for a task in state st: Ok once the task is
\* finished, the error when it does not finish within the hard bound.
StopOutcomes(st) == IF st = "done" THEN {"Ok"} ELSE {"Ok", "Err"}

\* impl Drop for Tui, run when App::event_loop returns: Tui::exit, that is
\* stop() and then reset_terminal_rules(); a failed exit panics. Afterwards
\* main reports the error of run, if any.
TuiDrop ==
    /\ prog = "app"
    /\ pc = "drop"
    /\ cancelled' = cancelled \cup {Cur}
    /\ \E o \in StopOutcomes(tasks[Cur]) :
        /\ stop_result' = o
        /\ IF o = "Ok"
           THEN /\ tasks' = [tasks EXCEPT ![Cur] = "done"]
                /\ aborted' = aborted
                /\ term' = ResetTerminalRules
                /\ rx_alive' = FALSE
                /\ msgTerm' = IF result = "Err" THEN ResetTerminalRules ELSE msgTerm
                /\ panicked' = panicked
                /\ pc' = "done"
                /\ tuiQ' = RunToCancel(Cur, tuiQ)
           ELSE /\ aborted' = aborted \cup {Cur}
                /\ RaisePanic
                /\ UNCHANGED <<tasks, rx_alive, tuiQ>>
    /\ UNCHANGED <<prog, hookRev, searchVars, routed, scrollVars, loopVars, send_error, coreVars, mmVars, uiVars, run_state, tick_event_buffer, event_channel, result,
                   nSent, nHandled, nDelivered, nProduced, nEmitted, nIn, eofSeen,
                   cancel_timer, aborting>>

\* The handler of an event of the bus panics.
AppPanic ==
    /\ prog = "app"
    /\ pc = "drain"
    /\ event_channel # <<>>
    /\ RaisePanic
    /\ UNCHANGED <<prog, hookRev, searchVars, routed, scrollVars, loopVars, send_error, coreVars, mmVars, uiVars, run_state, tick_event_buffer, event_channel, result,
                   nSent, nHandled, nDelivered, nProduced, taskVars, stopVars>>

(***************************************************************************)
(* The Tui used through its operations (src/tui.rs), program "tui": the    *)
(* Tui is entered once, and stop() runs one millisecond at a time. pc is   *)
(* "idle" between two operations, "stop" inside a stop() called by the     *)
(* owner and "exit" inside the stop() of an exit() or suspend().           *)
(***************************************************************************)
\* Tui::enter (and Tui::resume, which only calls it).
TuiEnter ==
    /\ prog = "tui"
    /\ pc = "idle"
    /\ Len(tasks) = 1
    /\ \E t \in SetTerminalRulesOutcomes :
        /\ term' = t
        /\ IF t = "alt"
           THEN /\ Start
                /\ result' = "Ok"
           ELSE /\ result' = "Err"
                /\ UNCHANGED <<tasks, cancelled>>
    /\ UNCHANGED <<prog, hookRev, searchVars, routed, scrollVars, loopVars, send_error, coreVars, mmVars, uiVars, pc, run_state, tick_event_buffer, event_channel,
                   nSent, nHandled, nDelivered, nProduced, msgTerm, panicked, tuiQ,
                   rx_alive, aborted, nEmitted, nIn, eofSeen, stopVars>>

\* Tui::next_event: recv() on the Tui channel, when it holds an event.
TuiNextEvent ==
    /\ prog = "tui"
    /\ pc = "idle"
    /\ tuiQ # <<>>
    /\ tuiQ' = Tail(tuiQ)
    /\ UNCHANGED <<prog, hookRev, searchVars, routed, scrollVars, loopVars, send_error, coreVars, mmVars, uiVars, appVars, termVars, rx_alive, tasks, cancelled,
                   aborted, nEmitted, nIn, eofSeen, stopVars>>

\* Tui::stop up to its loop, called directly ("stop") or by Tui::exit and
\* Tui::suspend ("exit").
StopBegin ==
    /\ prog = "tui"
    /\ pc = "idle"
    /\ \E op \in {"stop", "exit"} : pc' = op
    /\ cancelled' = cancelled \cup {Cur}
    /\ cancel_timer' = 0
    /\ aborting' = FALSE
    /\ stop_result' = "none"
    /\ UNCHANGED <<prog, hookRev, searchVars, routed, scrollVars, loopVars, send_error, coreVars, mmVars, uiVars, run_state, tick_event_buffer, event_channel,
                   result, nSent, nHandled, nDelivered, nProduced, termVars, tuiQ,
                   rx_alive, tasks, aborted, nEmitted, nIn, eofSeen>>

\* What follows stop(): the caller of Tui::stop has its answer; Tui::exit
\* resets the terminal rules only when stop() succeeded.
AfterStop(res) ==
    /\ stop_result' = res
    /\ result' = res
    /\ term' = IF pc = "exit" /\ res = "Ok" THEN ResetTerminalRules ELSE term
    /\ pc' = "idle"
    /\ cancel_timer' = 0
    /\ aborting' = FALSE

\* A stop() that tests the hard bound before it thinks of aborting.
StopDecisionHardFirst(timer, abrt) ==
    IF timer > SoftBoundMs THEN "fail" ELSE "wait"

\* The if / else if of the loop of Tui::stop, for the timer after the sleep
\* and the aborting flag: abort the task, give up, or go round again.
StopDecision(timer, abrt) ==
    IF timer > SoftBoundMs /\ ~abrt
    THEN "abort"
    ELSE IF timer > HardBoundMs THEN "fail" ELSE "wait"

\* One iteration of the loop of Tui::stop: the task is not finished.
StopIter ==
    /\ prog = "tui"
    /\ pc \in {"stop", "exit"}
    /\ ~IsFinished(Cur)
    /\ LET timer == cancel_timer + OneMs
           d == StopDecision(timer, aborting)
       IN  CASE d = "abort" ->
                /\ cancel_timer' = timer
                /\ aborting' = TRUE
                /\ aborted' = aborted \cup {Cur}
                /\ UNCHANGED <<pc, stop_result, result, term>>
             [] d = "fail" ->
                /\ AfterStop("Err")
                /\ UNCHANGED aborted
             [] OTHER ->
                /\ cancel_timer' = timer
                /\ UNCHANGED <<pc, stop_result, result, term, aborting, aborted>>
    /\ UNCHANGED <<prog, hookRev, searchVars, routed, scrollVars, loopVars, send_error, coreVars, mmVars, uiVars, run_state, tick_event_buffer, event_channel,
                   nSent, nHandled, nDelivered, nProduced, msgTerm, panicked, tuiQ,
                   rx_alive, tasks, cancelled, nEmitted, nIn, eofSeen>>

\* The loop of Tui::stop ends: the task is finished.
StopReturnOk ==
    /\ prog = "tui"
    /\ pc \in {"stop", "exit"}
    /\ IsFinished(Cur)
    /\ AfterStop("Ok")
    /\ UNCHANGED <<prog, hookRev, searchVars, routed, scrollVars, loopVars, send_error, coreVars, mmVars, uiVars, run_state, tick_event_buffer, event_channel,
                   nSent, nHandled, nDelivered, nProduced, msgTerm, panicked, taskVars>>

(***************************************************************************)
(* The Tui started and stopped repeatedly (src/tui.rs), program "life".    *)
(* stop() is one step here: it cancels the token and either sees the task  *)
(* finish or gives up. The terminal rules, which enter, exit, suspend and  *)
(* resume set and reset around start and stop, and the reader of the       *)
(* events are left to the programs "app" and "tui": here the events stay   *)
(* in the unbounded channel in the order they were sent.                   *)
(***************************************************************************)
\* Tui::start, called directly or by Tui::enter and Tui::resume.
LifeStart ==
    /\ prog = "life"
    /\ pc = "idle"
    /\ Len(tasks) <= MaxStarts
    /\ Start
    /\ UNCHANGED <<prog, hookRev, searchVars, routed, scrollVars, loopVars, send_error, coreVars, mmVars, uiVars, appVars, termVars, tuiQ, rx_alive, aborted,
                   nEmitted, nIn, eofSeen, stopVars>>

\* Tui::stop, called directly or by Tui::exit and Tui::suspend. Its error is
\* fatal: the program does not go on using the Tui.
LifeStop ==
    /\ prog = "life"
    /\ pc = "idle"
    /\ cancelled' = cancelled \cup {Cur}
    /\ \E o \in StopOutcomes(tasks[Cur]) :
        /\ stop_result' = o
        /\ IF o = "Ok"
           THEN /\ tasks' = [tasks EXCEPT ![Cur] = "done"]
                /\ tuiQ' = RunToCancel(Cur, tuiQ)
                /\ UNCHANGED <<aborted, pc>>
           ELSE /\ aborted' = aborted \cup {Cur}
                /\ pc' = "done"
                /\ UNCHANGED <<tasks, tuiQ>>
    /\ UNCHANGED <<prog, hookRev, searchVars, routed, scrollVars, loopVars, send_error, coreVars, mmVars, uiVars, run_state, tick_event_buffer, event_channel,
                   result, nSent, nHandled, nDelivered, nProduced, termVars,
                   rx_alive, nEmitted, nIn, eofSeen, cancel_timer, aborting>>

\* impl Drop for Tui: exit(), that is stop() and reset_terminal_rules(), then
\* the fields are dropped and the receiver with them; the tasks of earlier
\* starts, which nobody waited for, may still be running. A failed exit
\* panics.
LifeDrop ==
    /\ prog = "life"
    /\ pc = "idle"
    /\ cancelled' = cancelled \cup {Cur}
    /\ \E o \in StopOutcomes(tasks[Cur]) :
        /\ stop_result' = o
        /\ IF o = "Ok"
           THEN /\ tasks' = [tasks EXCEPT ![Cur] = "done"]
                /\ tuiQ' = RunToCancel(Cur, tuiQ)
                /\ rx_alive' = FALSE
                /\ pc' = "dropped"
                /\ UNCHANGED aborted
           ELSE /\ aborted' = aborted \cup {Cur}
                /\ pc' = "done"
                /\ UNCHANGED <<tasks, tuiQ, rx_alive>>
    /\ UNCHANGED <<prog, hookRev, searchVars, routed, scrollVars, loopVars, send_error, coreVars, mmVars, uiVars, run_state,
                   tick_event_buffer, event_channel, result, nSent, nHandled, nDelivered,
                   nProduced, termVars, nEmitted, nIn, eofSeen, cancel_timer, aborting>>

(***************************************************************************)
(* The driver of src/app.rs alone, program "bus": the Tui is entered and   *)
(* hands over whatever event it has; what is looked at is the bus, the     *)
(* buffer and the run state.                                               *)
(***************************************************************************)
\* The events a Tui can hand over.
BusKinds == {"Init", "Tick", "Render", "Key", "Resize"}

\* App::run up to the event loop, Tui::enter having succeeded.
BusRun ==
    /\ prog = "bus"
    /\ pc = "run"
    /\ run_state' = [k |-> "Running", forced |-> FALSE]
    /\ pc' = "recv"
    /\ UNCHANGED <<prog, hookRev, searchVars, routed, scrollVars, loopVars, send_error, coreVars, mmVars, uiVars,
                   tick_event_buffer, event_channel, result, nSent, nHandled, nDelivered,
                   nProduced, termVars, taskVars, stopVars>>

\* App::handle_tui_event: the event the Tui hands over is converted and sent
\* on the bus, the Init event is only logged.
BusHandleTuiEvent ==
    /\ prog = "bus"
    /\ pc = "recv"
    /\ nEmitted < MaxRounds
    /\ nEmitted' = nEmitted + 1
    /\ \E k \in BusKinds :
         LET e == TuiEvent(k, IF k \in InputKinds THEN nIn + 1 ELSE 0, 1)
         IN  /\ nIn' = IF k \in InputKinds THEN nIn + 1 ELSE nIn
             /\ IF k = "Init"
                THEN UNCHANGED <<event_channel, nSent>>
                ELSE /\ event_channel' = Send(event_channel, EventApp(FromTuiEvent(e)), nSent)
                     /\ nSent' = nSent + 1
    /\ pc' = "drain"
    /\ UNCHANGED <<prog, hookRev, searchVars, routed, scrollVars, loopVars, send_error, coreVars, mmVars, uiVars, run_state,
                   tick_event_buffer, result, nHandled, nDelivered, nProduced, termVars,
                   tuiQ, rx_alive, tasks, cancelled, aborted, eofSeen, stopVars>>

\* App::event_loop has returned and App::run with it.
BusReturn ==
    /\ prog = "bus"
    /\ pc = "drop"
    /\ pc' = "done"
    /\ UNCHANGED <<prog, hookRev, searchVars, routed, scrollVars, loopVars, send_error, coreVars, mmVars, uiVars, run_state,
                   tick_event_buffer, event_channel, result, nSent, nHandled, nDelivered,
                   nProduced, termVars, taskVars, stopVars>>

(***************************************************************************)
(* One run of Tui::event_loop with its timers, program "loop": the two     *)
(* intervals and the event stream are ready or not, the select takes one   *)
(* of the ready branches, and nothing bounds how long the task runs.       *)
(***************************************************************************)
MaxPending == 2

\* A select that polls the event stream before the timers and takes it
\* whenever it has an event.
SelectReadyInputFirst(td, rd, n, c) ==
    IF n > 0 THEN {"event"}
    ELSE (IF c THEN {"cancelled"} ELSE {})
           \cup (IF td THEN {"tick"} ELSE {})
           \cup (IF rd THEN {"render"} ELSE {})
           \cup {"closed"}

\* The branches of the tokio::select! that can complete: cancel_token
\* cancelled (c), tick_interval due (td), render_interval due (rd), n events
\* waiting in the stream; the stream may also end. The select is not biased:
\* any of them may be the one taken.
SelectReady(td, rd, n, c) ==
    (IF c THEN {"cancelled"} ELSE {})
      \cup (IF td THEN {"tick"} ELSE {})
      \cup (IF rd THEN {"render"} ELSE {})
      \cup (IF n > 0 THEN {"event"} ELSE {})
      \cup {"closed"}

\* The record of the events sent, after one of kind k.
Sent(k) == <<k, sent[1]>>

LoopRunning == prog = "loop" /\ tasks[1] # "done" /\ 1 \notin cancelled

\* event_sender.send(TuiEvent::Init) before the loop.
LoopHello ==
    /\ prog = "loop"
    /\ tasks[1] = "spawned"
    /\ IF rx_alive
       THEN /\ tasks' = [tasks EXCEPT ![1] = "select"]
            /\ sent' = Sent("Init")
            /\ UNCHANGED send_error
       ELSE /\ tasks' = [tasks EXCEPT ![1] = "done"]
            /\ send_error' = "logged"
            /\ UNCHANGED sent
    /\ UNCHANGED <<prog, hookRev, searchVars, routed, scrollVars, appVars, termVars, stopVars, mmVars, uiVars, coreVars,
                   tuiQ, rx_alive, cancelled, aborted, nEmitted, nIn, eofSeen,
                   tick_interval, render_interval, event_stream>>

\* The period of an interval passes: "tick" for tick_rate, "render" for
\* frame_rate.
LoopElapse(timer) ==
    /\ prog = "loop"
    /\ tasks[1] # "done"
    /\ IF timer = "tick"
       THEN ~tick_interval /\ tick_interval' = TRUE /\ UNCHANGED render_interval
       ELSE ~render_interval /\ render_interval' = TRUE /\ UNCHANGED tick_interval
    /\ UNCHANGED <<prog, hookRev, searchVars, routed, scrollVars, appVars, termVars, taskVars, stopVars, mmVars, uiVars,
                   coreVars, send_error, event_stream, sent>>

\* The terminal has another raw event for the stream.
LoopInput ==
    /\ prog = "loop"
    /\ tasks[1] # "done"
    /\ event_stream < MaxPending
    /\ event_stream' = event_stream + 1
    /\ UNCHANGED <<prog, hookRev, searchVars, routed, scrollVars, appVars, termVars, taskVars, stopVars, mmVars, uiVars,
                   coreVars, send_error, tick_interval, render_interval, sent>>

\* cancel_token.cancel(), by stop() or start().
LoopCancel ==
    /\ prog = "loop"
    /\ tasks[1] # "done"
    /\ 1 \notin cancelled
    /\ cancelled' = cancelled \cup {1}
    /\ UNCHANGED <<prog, hookRev, searchVars, routed, scrollVars, appVars, termVars, stopVars, mmVars, uiVars, coreVars,
                   send_error, loopVars, tuiQ, rx_alive, tasks, aborted, nEmitted, nIn,
                   eofSeen>>

\* One iteration of the loop in which the select takes branch b: the break
\* of the cancelled and closed branches, or the send of the event.
LoopBranch(b) ==
    /\ prog = "loop"
    /\ tasks[1] = "select"
    /\ b \in SelectReady(tick_interval, render_interval, event_stream, 1 \in cancelled)
    /\ tick_interval' = IF b = "tick" THEN FALSE ELSE tick_interval
    /\ render_interval' = IF b = "render" THEN FALSE ELSE render_interval
    /\ event_stream' = IF b = "event" THEN event_stream - 1 ELSE event_stream
    /\ eofSeen' = (eofSeen \/ b = "closed")
    /\ IF b \in {"cancelled", "closed"}
       THEN /\ tasks' = [tasks EXCEPT ![1] = "done"]
            /\ UNCHANGED <<sent, send_error>>
       ELSE \E k \in CASE b = "tick" -> {"Tick"}
                       [] b = "render" -> {"Render"}
                       [] OTHER -> {"Key", "Error"} :
              IF rx_alive
              THEN /\ sent' = Sent(k)
                   /\ UNCHANGED <<tasks, send_error>>
              ELSE /\ tasks' = [tasks EXCEPT ![1] = "done"]
                   /\ send_error' = "logged"
                   /\ UNCHANGED sent
    /\ UNCHANGED <<prog, hookRev, searchVars, routed, scrollVars, appVars, termVars, stopVars, mmVars, uiVars, coreVars,
                   tuiQ, rx_alive, cancelled, aborted, nEmitted, nIn>>

LoopSelect == \E b \in {"cancelled", "tick", "render", "event", "closed"} : LoopBranch(b)

(***************************************************************************)
(* The Tui-to-App middlemen, program "mm": src/events/mod.rs ("mod") and   *)
(* src/events/util.rs ("util").                                            *)
(***************************************************************************)
MmRevs == {"mod", "util"}

\* Vec::drain(..).collect(): <<what is collected, what stays in the vector>>.
DrainAll(buffer) == <<buffer, <<>>>>

\* A middleman that hands Hello on to the App like any other event.
HandleTuiEventHello(e, buffer) ==
    CASE e.k = "Tick" ->
            IF buffer = <<>>
            THEN <<<<>>, buffer>>
            ELSE <<<<AppEvent("UserInputs", FALSE, buffer)>>, <<>>>>
      [] e.k = "Input" -> <<<<>>, Append(buffer, Input("Key", e.id))>>
      [] OTHER -> <<<<AppEvent(e.k, FALSE, <<>>)>>, buffer>>

\* TuiAppMiddleman::handle_tui_event, src/events/mod.rs:
\* <<the events returned (none or one), input_buffer afterwards>>.
HandleTuiEventMod(e, buffer) ==
    CASE e.k = "Hello" -> <<<<>>, buffer>>
      [] e.k = "Tick" ->
            IF buffer = <<>>
            THEN <<<<>>, buffer>>
            ELSE <<<<AppEvent("UserInputs", FALSE, DrainAll(buffer)[1])>>, DrainAll(buffer)[2]>>
      [] e.k = "Input" -> <<<<>>, Append(buffer, Input("Key", e.id))>>
      [] OTHER -> <<<<AppEvent(e.k, FALSE, <<>>)>>, buffer>>

\* TuiAppMiddleman::handle_tui_event, src/events/util.rs:
\* <<the events sent (none or one), input_buffer afterwards>>.
HandleTuiEventUtil(e, buffer) ==
    CASE e.k = "Hello" -> <<<<>>, buffer>>
      [] e.k = "Tick" -> <<<<AppEvent("Tick", FALSE, DrainAll(buffer)[1])>>, DrainAll(buffer)[2]>>
      [] e.k = "Render" -> <<<<AppEvent("Render", FALSE, <<>>)>>, buffer>>
      [] e.k = "Input" -> <<<<>>, Append(buffer, Input("Key", e.id))>>

\* The inputs an event carries to the App.
Carried(e) == IF e.k \in {"UserInputs", "Tick", "Events"} THEN e.inputs ELSE <<>>

\* The Tui hands one event to the middleman.
MmHandleTuiEvent ==
    /\ prog = "mm"
    /\ \E k \in {"Hello", "Tick", "Render", "Input"} :
        /\ (k = "Input") => nIn < MaxInputs
        /\ LET e == TuiEvent(k, IF k = "Input" THEN nIn + 1 ELSE 0, 0)
               r == IF mmRev = "mod"
                    THEN HandleTuiEventMod(e, input_buffer)
                    ELSE HandleTuiEventUtil(e, input_buffer)
           IN  /\ mmIn' = k
               /\ mmOut' = r[1]
               /\ input_buffer' = r[2]
               /\ nIn' = IF k = "Input" THEN nIn + 1 ELSE nIn
               /\ nDelivered' = IF r[1] = <<>> THEN nDelivered
                                ELSE nDelivered + Len(Carried(r[1][1]))
    /\ UNCHANGED <<prog, hookRev, searchVars, routed, scrollVars, loopVars, send_error, coreVars, uiVars, mmRev, pc, run_state, tick_event_buffer, event_channel,
                   result, nSent, nHandled, nProduced, termVars, stopVars, tuiQ, rx_alive,
                   tasks, cancelled, aborted, nEmitted, eofSeen>>

(***************************************************************************)
(* The screen stack managers, program "ui".                                *)
(***************************************************************************)
UiRevs == {"ui", "handler"}

\* An event routed to a screen, with what it carries: the inputs of
\* AppEvent::Tick in buffer order, the title of ScreenEvent::Rename, <<>>
\* otherwise. Close, Finish, Rename, Error and Create are the ScreenEvents,
\* Tick, Render and Quit the AppEvents; an Event::Input has the kind of its
\* input.
UiEvent(k, arg) == [k |-> k, arg |-> arg]

ScreenEvents == {"Close", "Finish", "Rename", "Error", "Create"}

\* The title a screen starts with and the one it is renamed to.
Titles == {"Home", "Renamed"}

\* ScreenHandle::new: the handle of the screen numbered id.
ScreenHandleNew(id) == [id |-> id, run_state |-> "Running", title |-> "Home"]

\* What an operation on the manager did: the operation, the active screen and
\* its run state before it ("none" on an empty stack), the screen it returned
\* (0 for none), how many screens it removed and how many close hooks it ran.
Did(op, ss, popped, removed, closes) ==
    [op |-> op,
     active |-> IF ss = <<>> THEN 0 ELSE ss[Len(ss)].id,
     state |-> IF ss = <<>> THEN "none" ELSE ss[Len(ss)].run_state,
     popped |-> popped, removed |-> removed, closes |-> closes]

\* Screen::close, the default of the trait: the screen asks to be finished.
ScreenCloseDefault == <<UiEvent("Finish", <<>>)>>

\* HomeScreen::event: a key closes the screen, nothing else matters.
HomeScreenEvent(e) == IF e.k = "Key" THEN <<UiEvent("Close", <<>>)>> ELSE <<>>

\* A handle_screen_event that marks the screen Closing without calling its
\* close hook.
HandleScreenEventNoHook(h, e) ==
    CASE e.k = "Close" -> <<[h EXCEPT !.run_state = "Closing"], <<>>, 0>>
      [] e.k = "Finish" -> <<[h EXCEPT !.run_state = "Finished"], <<>>, 0>>
      [] e.k = "Rename" -> <<[h EXCEPT !.title = e.arg], <<>>, 0>>
      [] OTHER -> <<h, <<>>, 0>>

\* The arms of handle_screen_event that are todo!().
HandleScreenEventTodo(e) == e.k \in {"Error", "Create"}

\* ScreenHandle::handle_screen_event: <<handle afterwards, events sent, close
\* hooks run>>; the handle is as it was where the arm is todo!().
HandleScreenEvent(h, e) ==
    CASE e.k = "Close" -> <<[h EXCEPT !.run_state = "Closing"], ScreenCloseDefault, 1>>
      [] e.k = "Finish" -> <<[h EXCEPT !.run_state = "Finished"], <<>>, 0>>
      [] e.k = "Rename" -> <<[h EXCEPT !.title = e.arg], <<>>, 0>>
      [] OTHER -> <<h, <<>>, 0>>

\* The match of ScreenHandle::event: the events handed to the event hook of
\* the screen, in order.
Forwarded(e) ==
    IF e.k = "Tick"
    THEN [i \in 1..Len(e.arg) |-> UiEvent(e.arg[i], <<>>)]
    ELSE <<e>>

\* ScreenHandle::event: <<handle afterwards, events sent, close hooks run>>.
\* A screen event is handled and then passed to the screen; a Tick is passed
\* to the screen as its inputs, one by one.
HandleEvent(h, e) ==
    LET r == IF e.k \in ScreenEvents THEN HandleScreenEvent(h, e) ELSE <<h, <<>>, 0>>
        f == Forwarded(e)
    IN  <<r[1], r[2] \o Flatten([i \in 1..Len(f) |-> HomeScreenEvent(f[i])]), r[3]>>

\* A clear that leaves the bottom screen on the stack.
KeepBottom(ss) == SubSeq(ss, 1, IF Len(ss) > 1 THEN 1 ELSE Len(ss))

\* Vec::clear of Ui::clear_screens / ScreenHandler::clear_screens.
ClearScreens(ss) == <<>>

\* Vec::pop of pop_active_screen: the stack afterwards.
PopActiveScreen(ss) == SubSeq(ss, 1, Len(ss) - 1)

\* A match without the arm that asks the active screen to close.
UpdateArmNoClose(rev, m, a) == IF a = "Finished" THEN "pop" ELSE "nothing"

\* The arm of the match of update() that is taken, by revision, for the run
\* states (manager, active screen).
UpdateArm(rev, m, a) ==
    IF rev = "ui"
    THEN CASE a = "Finished" -> "pop"
           [] a = "Closing" \/ (m = "Running" /\ a = "Running") -> "screen_update"
           [] m = "Closing" /\ a = "Running" -> "send_close"
           [] OTHER -> "nothing"
    ELSE CASE m = "Finished" -> "nothing"
           [] a = "Finished" -> "pop"
           [] a = "Closing" -> "todo"
           [] m = "Running" /\ a = "Running" -> "todo"
           [] OTHER -> "send_close"

\* A finish_if_empty that leaves the run state alone.
FinishIfEmptyNever(ss, m) == m

\* Ui::finish_if_empty: the manager's run state afterwards, for the stack ss
\* and the run state m before.
FinishIfEmpty(ss, m) == IF ss = <<>> THEN "Finished" ELSE m

UiRunning == prog = "ui" /\ pc = "ui"

\* push_active_screen.
UiPush ==
    /\ UiRunning
    /\ nPushed < MaxScreens
    /\ nPushed' = nPushed + 1
    /\ screens' = Append(screens, ScreenHandleNew(nPushed + 1))
    /\ uiLast' = Did("push", screens, 0, 0, 0)
    /\ UNCHANGED <<prog, hookRev, searchVars, routed, scrollVars, loopVars, send_error, coreVars, mmVars, appVars, termVars, taskVars, stopVars,
                   uiRev, ui_run_state, ui_events>>

\* close().
UiClose ==
    /\ UiRunning
    /\ ui_run_state' = "Closing"
    /\ uiLast' = Did("close", screens, 0, 0, 0)
    /\ UNCHANGED <<prog, hookRev, searchVars, routed, scrollVars, loopVars, send_error, coreVars, mmVars, appVars, termVars, taskVars, stopVars,
                   uiRev, screens, ui_events, nPushed>>

\* quit().
UiQuit ==
    /\ UiRunning
    /\ screens' = ClearScreens(screens)
    /\ ui_run_state' = "Finished"
    /\ uiLast' = Did("quit", screens, 0, Len(screens) - Len(screens'), 0)
    /\ UNCHANGED <<prog, hookRev, searchVars, routed, scrollVars, loopVars, send_error, coreVars, mmVars, appVars, termVars, taskVars, stopVars,
                   uiRev, ui_events, nPushed>>

\* update(); next is where the caller goes on when update() returns Ok.
UiUpdateBody(next) ==
    /\ IF screens = <<>>
       THEN /\ ui_run_state' = IF uiRev = "ui" THEN FinishIfEmpty(screens, ui_run_state)
                                                ELSE "Finished"
            /\ uiLast' = Did("update", screens, 0, 0, 0)
            /\ pc' = next
            /\ UNCHANGED <<screens, ui_events, panicked, result, send_error>>
       ELSE LET arm == UpdateArm(uiRev, ui_run_state, screens[Len(screens)].run_state)
                failed == arm = "send_close" /\ ~rx_alive
            IN  /\ arm = "send_close" => Len(ui_events) < MaxUiEvents
                /\ screens' = IF arm = "pop" THEN PopActiveScreen(screens) ELSE screens
                /\ ui_run_state' = IF uiRev = "ui" /\ arm = "pop"
                                   THEN FinishIfEmpty(screens', ui_run_state)
                                   ELSE ui_run_state
                /\ ui_events' = IF arm = "send_close" /\ ~failed
                                THEN Append(ui_events, UiEvent("Close", <<>>))
                                ELSE ui_events
                /\ uiLast' = Did("update", screens,
                                 IF arm = "pop" THEN screens[Len(screens)].id ELSE 0,
                                 Len(screens) - Len(screens'), 0)
                /\ panicked' = (arm = "todo")
                /\ result' = IF failed THEN "Err" ELSE result
                /\ send_error' = IF failed THEN "returned" ELSE send_error
                /\ pc' = IF arm = "todo" \/ failed THEN "done" ELSE next
    /\ UNCHANGED <<prog, hookRev, searchVars, routed, scrollVars, loopVars, coreVars, mmVars, run_state, tick_event_buffer, event_channel,
                   nSent, nHandled, nDelivered, nProduced, term, msgTerm,
                   taskVars, stopVars, uiRev, nPushed>>

UiUpdate == UiRunning /\ UiUpdateBody(pc)

\* The owner of the receiving end of the channel drops it.
UiReceiverDropped ==
    /\ UiRunning
    /\ rx_alive
    /\ rx_alive' = FALSE
    /\ ui_events' = <<>>
    /\ UNCHANGED <<prog, hookRev, searchVars, routed, scrollVars, loopVars, send_error, coreVars, mmVars, appVars, termVars, stopVars,
                   tuiQ, tasks, cancelled, aborted, nEmitted, nIn, eofSeen,
                   uiRev, ui_run_state, screens, uiLast, nPushed>>

\* The driver takes an event from the channel and hands it to event() of the
\* manager, which passes it to the active screen. Without a screen, Ui::event
\* panics and ScreenHandler::event returns the error.
\* next is where the driver goes on when event() returns Ok.
UiEventRoutedBody(next) ==
    /\ rx_alive
    /\ ui_events # <<>>
    /\ LET e == Head(ui_events)
       IN  IF screens = <<>>
           THEN /\ ui_events' = Tail(ui_events)
                /\ panicked' = (uiRev = "ui")
                /\ result' = IF uiRev = "ui" THEN result ELSE "Err"
                /\ pc' = "done"
                /\ uiLast' = Did("event", screens, 0, 0, 0)
                /\ UNCHANGED screens
           ELSE LET r == HandleEvent(screens[Len(screens)], e)
                IN  /\ screens' = [screens EXCEPT ![Len(screens)] = r[1]]
                    /\ ui_events' = Tail(ui_events) \o r[2]
                    /\ uiLast' = Did("event", screens, 0, 0, r[3])
                    /\ pc' = next
                    /\ UNCHANGED <<panicked, result>>
    /\ UNCHANGED <<prog, hookRev, searchVars, routed, scrollVars, loopVars, send_error, coreVars, mmVars, run_state, tick_event_buffer, event_channel,
                   nSent, nHandled, nDelivered, nProduced, term, msgTerm,
                   taskVars, stopVars, uiRev, ui_run_state, nPushed>>

UiEventRouted == UiRunning /\ UiEventRoutedBody(pc)

\* Another holder of the sender puts an event on the channel: a Tick with one
\* key, or a Rename.
UiProducerSend ==
    /\ UiRunning
    /\ rx_alive
    /\ nProduced < MaxUiProduced
    /\ Len(ui_events) < MaxUiEvents
    /\ \E e \in {UiEvent("Tick", <<"Key">>), UiEvent("Rename", "Renamed")} :
         ui_events' = Append(ui_events, e)
    /\ nProduced' = nProduced + 1
    /\ UNCHANGED <<prog, hookRev, searchVars, routed, scrollVars, loopVars, send_error, coreVars, mmVars, pc, run_state, tick_event_buffer, event_channel,
                   result, nSent, nHandled, nDelivered, termVars, taskVars, stopVars,
                   uiRev, ui_run_state, screens, uiLast, nPushed>>

(***************************************************************************)
(* The stack manager of src/ui/mod.rs driven in rounds, program "round":   *)
(* the owner drains the bus, routing every event to the active screen,     *)
(* calls update(), and starts over until the manager is Finished. The      *)
(* screens keep the default close hook, and the other holders of the       *)
(* sender send no key.                                                     *)
(***************************************************************************)
InRound == prog = "round" /\ pc \in {"drain", "update"}

\* push_active_screen, while the manager runs.
RoundPush ==
    /\ InRound
    /\ ui_run_state = "Running"
    /\ nPushed < MaxScreens
    /\ nPushed' = nPushed + 1
    /\ screens' = Append(screens, ScreenHandleNew(nPushed + 1))
    /\ uiLast' = Did("push", screens, 0, 0, 0)
    /\ UNCHANGED <<prog, hookRev, searchVars, routed, scrollVars, loopVars, send_error, coreVars, mmVars, appVars, termVars,
                   taskVars, stopVars, uiRev, ui_run_state, ui_events>>

\* close(), once.
RoundClose ==
    /\ InRound
    /\ ui_run_state = "Running"
    /\ ui_run_state' = "Closing"
    /\ uiLast' = Did("close", screens, 0, 0, 0)
    /\ UNCHANGED <<prog, hookRev, searchVars, routed, scrollVars, loopVars, send_error, coreVars, mmVars, appVars, termVars,
                   taskVars, stopVars, uiRev, screens, ui_events, nPushed>>

\* Another holder of the sender puts an event on the channel: a Tick
\* without inputs, or a Rename.
RoundProducerSend ==
    /\ InRound
    /\ nProduced < MaxUiProduced
    /\ Len(ui_events) < MaxUiEvents
    /\ \E e \in {UiEvent("Tick", <<>>), UiEvent("Rename", "Renamed")} :
         ui_events' = Append(ui_events, e)
    /\ nProduced' = nProduced + 1
    /\ UNCHANGED <<prog, hookRev, searchVars, routed, scrollVars, loopVars, send_error, coreVars, mmVars, pc, run_state,
                   tick_event_buffer, event_channel, result, nSent, nHandled, nDelivered,
                   termVars, taskVars, stopVars, uiRev, ui_run_state, screens, uiLast,
                   nPushed>>

\* The drain takes the next event from the bus and routes it.
RoundDrainOne == prog = "round" /\ pc = "drain" /\ UiEventRoutedBody("drain")

\* The drain finds the bus empty.
RoundDrainEnd ==
    /\ prog = "round"
    /\ pc = "drain"
    /\ ui_events = <<>>
    /\ pc' = "update"
    /\ UNCHANGED <<prog, hookRev, searchVars, routed, scrollVars, loopVars, send_error, coreVars, mmVars, uiVars, run_state,
                   tick_event_buffer, event_channel, result, nSent, nHandled, nDelivered,
                   nProduced, termVars, taskVars, stopVars>>

\* update() at the end of the round; a Finished manager ends the rounds.
RoundUpdate ==
    /\ prog = "round"
    /\ pc = "update"
    /\ UiUpdateBody(IF ui_run_state' = "Finished" THEN "done" ELSE "drain")

(***************************************************************************)
(* One ScreenHandle and the events routed to it, program "handle":         *)
(* ScreenHandle::event of src/ui/screens/handle.rs over a screen whose     *)
(* hooks are not known: they may return an error.                          *)
(***************************************************************************)
\* The variants of InputEvent told apart.
InputEvents == {"Key", "Mouse", "PasteText"}

\* The events that can be routed to a handle.
HandleEvents ==
    {UiEvent(k, <<>>) : k \in {"Close", "Finish", "Error", "Create", "Render", "Quit", "Key"}}
    \cup {UiEvent("Rename", t) : t \in Titles}
    \cup {UiEvent("Tick", i) : i \in SeqsUpTo(InputEvents, MaxTickInputs)}

\* What the event hook got: the event and the handle's data cloned for it.
Hooked(e, h) == [event |-> e, data |-> h]

\* ScreenHandle::event on the handle h. closeOk: the close hook returns Ok;
\* failAt: the call of the event hook that returns an error (0 for none).
\* The result is the handle afterwards, what the event hook got in order,
\* the number of close hooks run and how the call ended.
ScreenHandleEvent(h, e, closeOk, failAt) ==
    LET isScreen == e.k \in ScreenEvents
        h2 == IF isScreen THEN HandleScreenEvent(h, e)[1] ELSE h
        closes == IF isScreen THEN HandleScreenEvent(h, e)[3] ELSE 0
        f == Forwarded(e)
        n == IF failAt \in 1..Len(f) THEN failAt ELSE Len(f)
    IN  CASE isScreen /\ HandleScreenEventTodo(e) ->
                [handle |-> h, hooked |-> <<>>, closes |-> 0, end |-> "panic"]
          [] isScreen /\ closes > 0 /\ ~closeOk ->
                [handle |-> h2, hooked |-> <<>>, closes |-> closes, end |-> "Err"]
          [] OTHER ->
                [handle |-> h2, hooked |-> [i \in 1..n |-> Hooked(f[i], h2)],
                 closes |-> closes,
                 end |-> IF failAt \in 1..Len(f) THEN "Err" ELSE "Ok"]

\* No event has been routed yet.
NotRouted == [event |-> UiEvent("none", <<>>), hooked |-> <<>>]

\* The owner of the handle calls ScreenHandle::event with an event.
HandleRoute ==
    /\ prog = "handle"
    /\ pc = "handle"
    /\ \E e \in HandleEvents, closeOk \in BOOLEAN, failAt \in 0..MaxTickInputs :
         LET r == ScreenHandleEvent(screens[1], e, closeOk, failAt)
         IN  /\ screens' = <<r.handle>>
             /\ routed' = [event |-> e, hooked |-> r.hooked]
             /\ uiLast' = Did("event", screens, 0, 0, r.closes)
             /\ panicked' = (r.end = "panic")
             /\ result' = IF r.end = "panic" THEN result ELSE r.end
             /\ pc' = IF r.end = "panic" THEN "done" ELSE pc
    /\ UNCHANGED <<prog, hookRev, searchVars, scrollVars, loopVars, send_error, coreVars, mmVars, run_state,
                   tick_event_buffer, event_channel, nSent, nHandled, nDelivered,
                   nProduced, term, msgTerm, taskVars, stopVars, uiRev, ui_run_state,
                   ui_events, nPushed>>

(***************************************************************************)
(* The ScrollTracker, program "scroll": src/ui/widgets/utils/              *)
(* scroll_tracker.rs (scroll_forward, scroll_backward, set_display_count)  *)
(* and src/ui/components/scroll_tracker.rs (scroll_up, scroll_down,        *)
(* set_range), the same code under two sets of names, with the calls the   *)
(* game selection screen makes on it. An Option is <<>> for None and <<v>> *)
(* for Some(v). The fields are unsigned: a subtraction below zero panics   *)
(* in a build with overflow checks and wraps in one without; a run is      *)
(* followed up to its first underflow.                                     *)
(***************************************************************************)
Min(a, b) == IF a <= b THEN a ELSE b

\* The tracker before ScrollTracker::new.
NoTracker == [selected |-> <<>>, start |-> 0, end |-> 0, range |-> <<>>, length |-> 0]

\* What a call did: the method and whether an unsigned subtraction in it
\* went below zero.
ScrollDid(op, under) == [op |-> op, under |-> under]

\* The result of a method: the tracker afterwards (as it was, when a
\* subtraction underflowed) and whether one did.
Scrolled(t, under) == [t |-> t, under |-> under]

\* ScrollTracker::new(length, range).
TrackerNew(length, range) ==
    IF length - 1 < 0
    THEN Scrolled(NoTracker, TRUE)
    ELSE Scrolled([selected |-> <<>>, start |-> 0, end |-> length - 1,
                   range |-> <<Min(IF range = <<>> THEN length ELSE range[1], length)>>,
                   length |-> length], FALSE)

\* ScrollTracker::scroll_forward (scroll_up in src/ui/components).
ScrollForward(t) ==
    IF t.selected = <<>>
    THEN Scrolled(IF t.length > 0 THEN [t EXCEPT !.selected = <<0>>] ELSE t, FALSE)
    ELSE LET selected == t.selected[1]
         IN  IF selected = 0
             THEN IF t.length - 1 < 0
                  THEN Scrolled(t, TRUE)
                  ELSE LET location == t.length - 1
                       IN  IF t.range # <<>>
                              /\ (t.range[1] - 1 < 0 \/ location - (t.range[1] - 1) < 0)
                           THEN Scrolled(t, TRUE)
                           ELSE Scrolled([t EXCEPT
                                    !.start = IF t.range # <<>>
                                              THEN location - (t.range[1] - 1) ELSE @,
                                    !.selected = <<t.length - 1>>], FALSE)
             ELSE Scrolled([t EXCEPT
                      !.selected = <<selected - 1>>,
                      !.start = IF t.range # <<>> /\ selected = t.start
                                THEN IF selected < t.range[1] THEN 0
                                     ELSE selected - t.range[1]
                                ELSE @], FALSE)

\* ScrollTracker::scroll_backward (scroll_down in src/ui/components).
ScrollBackward(t) ==
    IF t.selected = <<>>
    THEN Scrolled(IF t.length > 0 THEN [t EXCEPT !.selected = <<0>>] ELSE t, FALSE)
    ELSE LET selected == t.selected[1]
         IN  IF t.length - 1 < 0
             THEN Scrolled(t, TRUE)
             ELSE IF selected = t.length - 1
                  THEN Scrolled([t EXCEPT !.start = 0, !.selected = <<0>>], FALSE)
                  ELSE IF t.range # <<>> /\ t.start + t.range[1] - 1 < 0
                       THEN Scrolled(t, TRUE)
                       ELSE Scrolled([t EXCEPT
                                !.selected = <<selected + 1>>,
                                !.start = IF t.range # <<>>
                                             /\ selected = t.start + t.range[1] - 1
                                          THEN Min(t.start + t.range[1], t.end)
                                          ELSE @], FALSE)

\* ScrollTracker::set_length.
SetLength(t, new_length) ==
    Scrolled([t EXCEPT !.length = new_length, !.start = 0,
                       !.end = IF new_length = 0 THEN 0 ELSE new_length - 1,
                       !.selected = <<>>], FALSE)

\* ScrollTracker::set_display_count (set_range in src/ui/components).
SetDisplayCount(t, new_range) ==
    Scrolled([t EXCEPT !.range = <<Min(t.length, new_range)>>], FALSE)

\* ScrollTracker::get_displayed_range: <<first index, index after the last>>.
GetDisplayedRange(t) ==
    IF t.range # <<>> /\ ~(t.start + t.range[1] > t.length)
    THEN <<t.start, t.start + t.range[1]>>
    ELSE <<t.start, t.length>>

\* The caps of GameSelectionScreen::increase_searches_shown and
\* decrease_searches_shown.
MostSearchesShown == 10
FewestSearchesShown == 5

\* A call r was made by the method op: the tracker changes, or the run ends
\* at the underflow.
ScrollCall(op, r) ==
    /\ tracker' = r.t
    /\ scrollLast' = ScrollDid(op, r.under)
    /\ pc' = IF r.under THEN "done" ELSE "scroll"
    /\ panicked' \in (IF r.under THEN BOOLEAN ELSE {FALSE})
    /\ UNCHANGED <<prog, hookRev, searchVars, routed, loopVars, send_error, coreVars, mmVars, uiVars,
                   run_state, tick_event_buffer, event_channel, result, nSent, nHandled,
                   nDelivered, nProduced, term, msgTerm, taskVars, stopVars>>

ScrollRunning == prog = "scroll" /\ pc = "scroll"

\* ScrollTracker::new, for a list of any length and any range.
ScrollNewStep ==
    /\ prog = "scroll"
    /\ pc = "new"
    /\ \E length \in 0..MaxLength,
          range \in {<<>>} \cup {<<n>> : n \in 0..(MaxLength + 1)} :
         ScrollCall("new", TrackerNew(length, range))

ScrollForwardStep == ScrollRunning /\ ScrollCall("scroll_forward", ScrollForward(tracker))

ScrollBackwardStep == ScrollRunning /\ ScrollCall("scroll_backward", ScrollBackward(tracker))

\* set_length, as update_items and update_search_results call it with the
\* number of items they found.
SetLengthStep ==
    /\ ScrollRunning
    /\ \E n \in 0..MaxLength : ScrollCall("set_length", SetLength(tracker, n))

SetDisplayCountStep ==
    /\ ScrollRunning
    /\ \E n \in 0..(MaxLength + 1) :
         ScrollCall("set_display_count", SetDisplayCount(tracker, n))

\* GameSelectionScreen::increase_searches_shown, the tracker having a range.
IncreaseSearchesShown ==
    /\ ScrollRunning
    /\ tracker.range # <<>>
    /\ tracker.range[1] < MostSearchesShown
    /\ ScrollCall("set_display_count", SetDisplayCount(tracker, tracker.range[1] + 1))

\* GameSelectionScreen::decrease_searches_shown, the tracker having a range.
DecreaseSearchesShown ==
    /\ ScrollRunning
    /\ tracker.range # <<>>
    /\ tracker.range[1] > FewestSearchesShown
    /\ ScrollCall("set_display_count", SetDisplayCount(tracker, tracker.range[1] - 1))

(***************************************************************************)
(* The search term, program "search": GameSelectionScreen of               *)
(* src/ui/screens/game_select.rs with the keys that change its search      *)
(* term. A String is the sequence of its characters; the characters typed  *)
(* are "e" (one byte in UTF-8), "eacute" (e with an acute accent, two      *)
(* bytes) and their capitals "E" and "Eacute". A term holds at most        *)
(* MaxOddChars characters other than "e".                                  *)
(***************************************************************************)
\* char::len_utf8 of the characters typed.
Utf8Len(c) == IF c \in {"e", "E", "d"} THEN 1 ELSE 2

\* uppercase_char.
UppercaseChar(c) == CASE c = "e" -> "E" [] c = "eacute" -> "Eacute" [] OTHER -> c

\* str::to_lowercase, a String being a sequence of characters.
ToLowercase(t) ==
    [i \in DOMAIN t |-> CASE t[i] = "E" -> "e" [] t[i] = "Eacute" -> "eacute"
                           [] OTHER -> t[i]]

RECURSIVE BytesUpTo(_, _)
\* The bytes of the first i characters of t.
BytesUpTo(t, i) == IF i = 0 THEN 0 ELSE Utf8Len(t[i]) + BytesUpTo(t, i - 1)

\* String::len: the length in bytes.
StrLen(t) == BytesUpTo(t, Len(t))

\* all_games: the names of the games, in lower case.
AllGames == << <<"m", "i", "n", "e", "s", "w", "e", "e", "p", "e", "r">> >>

\* str::contains.
Contains(name, keyword) ==
    /\ Len(keyword) <= Len(name)
    /\ \E i \in 0..(Len(name) - Len(keyword)) :
         SubSeq(name, i + 1, i + Len(keyword)) = keyword

\* games_by_keyword: how many games have the keyword in their name.
GamesByKeyword(keyword) ==
    Cardinality({g \in DOMAIN AllGames : Contains(AllGames[g], keyword)})

\* The length of the search results update_search_results finds for a term.
SearchResultsLength(st) ==
    IF st = <<>> THEN Len(AllGames) ELSE GamesByKeyword(ToLowercase(st[1]))

Key(code, ch, modifiers) == [code |-> code, ch |-> ch, modifiers |-> modifiers]
NoKey == Key("none", "", "NONE")

\* The keys pressed: letters alone, with Shift and with Alt, Ctrl-D and
\* Backspace.
CharKeys == {Key("Char", c, m) : c \in {"e", "eacute"}, m \in {"NONE", "SHIFT", "ALT"}}
CtrlD == Key("Char", "d", "CONTROL")
Backspace == Key("Backspace", "", "NONE")

\* What a call did to the term: the term afterwards, whether the call
\* panicked and whether update_search_results ran.
TermDid(st, panic, updated) == [term |-> st, panic |-> panic, updated |-> updated]

\* GameSelectionScreen::add_character_to_term.
AddCharacterToTerm(st, character, modifier) ==
    LET c == IF modifier = "SHIFT" THEN UppercaseChar(character) ELSE character
    IN  IF st = <<>> THEN TermDid(<< <<c>> >>, FALSE, TRUE)
        ELSE IF StrLen(st[1]) < TermByteCap
             THEN TermDid(<<Append(st[1], c)>>, FALSE, TRUE)
             ELSE TermDid(st, TRUE, FALSE)

\* GameSelectionScreen::clear_search_term.
ClearSearchTerm(st) == TermDid(<<>>, FALSE, TRUE)

\* GameSelectionScreen::remove_one_character.
RemoveOneCharacter(st) ==
    IF st = <<>> THEN TermDid(st, FALSE, TRUE)
    ELSE LET t == SubSeq(st[1], 1, Len(st[1]) - 1)
         IN  TermDid(IF t = <<>> THEN <<>> ELSE <<t>>, FALSE, TRUE)

\* GameSelectionScreen::event, for the keys above.
GameSelectEvent(st, key) ==
    CASE key.code = "Char" /\ key.ch = "d" /\ key.modifiers = "CONTROL" -> ClearSearchTerm(st)
      [] key.code = "Backspace" -> RemoveOneCharacter(st)
      [] key.code = "Char" /\ key.modifiers \in {"SHIFT", "NONE"} ->
            AddCharacterToTerm(st, key.ch, key.modifiers)
      [] OTHER -> TermDid(st, FALSE, FALSE)

\* The characters of a term other than "e".
OddChars(st) ==
    IF st = <<>> THEN 0 ELSE Cardinality({i \in DOMAIN st[1] : st[1][i] # "e"})

\* GameSelectionScreen::default: no term, every game listed.
GameSelectionDefault ==
    /\ prog = "search"
    /\ pc = "default"
    /\ LET r == TrackerNew(Len(AllGames), <<SearchesShown>>)
       IN  /\ tracker' = r.t
           /\ scrollLast' = ScrollDid("new", r.under)
           /\ pc' = IF r.under THEN "done" ELSE "search"
           /\ panicked' \in (IF r.under THEN BOOLEAN ELSE {FALSE})
    /\ UNCHANGED <<prog, hookRev, searchVars, routed, loopVars, send_error, coreVars, mmVars,
                   uiVars, run_state, tick_event_buffer, event_channel, result, nSent,
                   nHandled, nDelivered, nProduced, term, msgTerm, taskVars, stopVars>>

SearchRunning == prog = "search" /\ pc = "search"

\* The screen gets the key: the term changes and update_search_results sets
\* the length of the tracker, or add_character_to_term panics.
SearchKey(key) ==
    /\ LET r == GameSelectEvent(search_term, key)
       IN  /\ search_term' = r.term
           /\ typed' = key
           /\ panicked' = r.panic
           /\ pc' = IF r.panic THEN "done" ELSE pc
           /\ tracker' = IF r.updated
                         THEN SetLength(tracker, SearchResultsLength(r.term)).t
                         ELSE tracker
           /\ scrollLast' = IF r.updated THEN ScrollDid("set_length", FALSE)
                            ELSE scrollLast
    /\ UNCHANGED <<prog, hookRev, routed, loopVars, send_error, coreVars, mmVars, uiVars,
                   run_state, tick_event_buffer, event_channel, result, nSent, nHandled,
                   nDelivered, nProduced, term, msgTerm, taskVars, stopVars>>

\* A letter is typed.
SearchType ==
    /\ SearchRunning
    /\ \E key \in CharKeys :
         /\ \/ key.ch = "e" /\ key.modifiers # "SHIFT"
            \/ OddChars(search_term) < MaxOddChars
         /\ SearchKey(key)

SearchBackspace == SearchRunning /\ SearchKey(Backspace)

SearchClear == SearchRunning /\ SearchKey(CtrlD)

(***************************************************************************)
(* The poll-based handlers, program "core": src/core/handler.rs over the   *)
(* screens of src/ui/screens/mod.rs ("handler") and src/core/mod.rs over   *)
(* the boxed screens of src/ui/screens/{welcome,game_select,config}.rs     *)
(* ("mod"). A screen is [id, name, kind, open_status, screen_created]; the *)
(* slot screen_created is <<>> for None and <<child>> for Some(child), a   *)
(* child being [name, req] where req numbers the requests. In "mod" a      *)
(* screen keeps its closing flag and its slot itself; they are held in the *)
(* same two fields.                                                        *)
(***************************************************************************)
CoreRevs == {"handler", "mod"}

\* The terminal events told apart: unmodified keys, keys with Ctrl, Resize.
CoreKeys == {"p", "c", "q", "Enter", "Esc", "x", "ctrl-h", "ctrl-q"}
CoreEvents == CoreKeys \cup {"Resize"}
Unmodified == {"p", "c", "q", "Enter", "Esc", "x"}

\* Handler::check_quit_controls of the two revisions (Ctrl-C and Alt-F4 go
\* the way of Ctrl-Q).
CheckQuitControls(rev, e) ==
    IF rev = "handler" THEN e = "ctrl-q" ELSE e \in {"ctrl-q", "Esc"}

\* Screen::initial_state: ControlsPopup is the one popup.
ScreenKind(name) == IF name = "ControlsPopup" THEN "Popup" ELSE "Normal"

\* The pages a page navigates to.
PageNames == {"GameSearch", "Config"}

\* ScreenAndState::new / ScreenState::new.
ScreenAndStateNew(id, name) ==
    [id |-> id, name |-> name, kind |-> ScreenKind(name),
     open_status |-> "Open", screen_created |-> <<>>]

Child(name, req) == [name |-> name, req |-> req]

\* A slot that keeps what it holds when it is set again.
SetScreenCreatedKeep(s, child) ==
    IF s.screen_created = <<>> THEN [s EXCEPT !.screen_created = <<child>>] ELSE s

\* ScreenState::set_screen_created (and WelcomeScreen::set_screen_created).
SetScreenCreated(s, child) == [s EXCEPT !.screen_created = <<child>>]

RECURSIVE SetAll(_, _, _)
\* set_screen_created called for each of names in turn, the requests being
\* numbered from n + 1.
SetAll(s, names, n) ==
    IF names = <<>> THEN s
    ELSE SetAll(SetScreenCreated(s, Child(Head(names), n + 1)), Tail(names), n + 1)

\* A look at the slot that leaves it as it is.
PeekScreenCreated(s) == <<s.screen_created, s>>

\* Option::take on the slot (and WelcomeScreen::screen_created): <<what was
\* in the slot, the screen afterwards>>.
TakeScreenCreated(s) == <<s.screen_created, [s EXCEPT !.screen_created = <<>>]>>

\* handle_event of a page of the "handler" revision: on an unmodified key it
\* may ask for pages, any number of times, and may close itself; the popup
\* of src/ui/screens/controls_popup.rs does nothing. The result is the set of
\* <<page names asked for in turn, closed>>.
HandleEventOutcomes(s, e) ==
    IF s.kind = "Normal" /\ e \in Unmodified
    THEN SeqsUpTo(PageNames, MaxSets) \X BOOLEAN
    ELSE {<<<<>>, FALSE>>}

\* Screen::event up to its call of handle_event: <<names asked for, closed>>.
ScreenEventDefault(s, e) ==
    CASE e = "ctrl-h" /\ s.kind = "Normal" -> <<<<"ControlsPopup">>, FALSE>>
      [] e = "Esc" -> <<<<>>, TRUE>>
      [] OTHER -> <<<<>>, FALSE>>

\* The event method of the boxed screens: <<names asked for, closing>>.
\* Enter acts on the selected item, which may be any or none.
BoxedEventOutcomes(s, e) ==
    CASE s.name = "Welcome" ->
            CASE e \in {"p"} -> {<<<<"GameSearch">>, FALSE>>}
              [] e \in {"c"} -> {<<<<"Config">>, FALSE>>}
              [] e \in {"q"} -> {<<<<>>, TRUE>>}
              [] e = "Enter" -> {<<<<"GameSearch">>, FALSE>>, <<<<"Config">>, FALSE>>,
                                 <<<<>>, TRUE>>, <<<<>>, FALSE>>}
              [] OTHER -> {<<<<>>, FALSE>>}
      [] s.name = "GameSearch" ->
            IF e = "Enter"
            THEN {<<<<"MinesweeperSetup">>, TRUE>>, <<<<>>, FALSE>>}
            ELSE {<<<<>>, FALSE>>}
      [] s.name = "Config" ->
            IF e = "Esc" THEN {<<<<>>, TRUE>>} ELSE {<<<<>>, FALSE>>}
      [] s.name = "MinesweeperSetup" ->
            IF e = "Enter" THEN {<<<<>>, TRUE>>} ELSE {<<<<>>, FALSE>>}

\* The active screen after an event asked for names and closed or not.
Routed(s, names, closed) ==
    [SetAll(s, names, nReq) EXCEPT
        !.open_status = IF closed THEN "Closed" ELSE s.open_status]

\* A drawing that stops at the active screen.
DrawActiveOnly(ss) == IF ss = <<>> THEN <<>> ELSE <<Len(ss)>>

RECURSIVE DrawnFrom(_, _)
\* The loop of get_drawn_screens from position i down, before the reverse.
DrawnFrom(ss, i) ==
    IF i = 0 THEN <<>>
    ELSE IF ss[i].kind = "Normal" THEN <<i>>
    ELSE <<i>> \o DrawnFrom(ss, i - 1)

\* Vec::reverse.
Reverse(s) == [i \in 1..Len(s) |-> s[Len(s) + 1 - i]]

\* ScreenHandler::get_drawn_screens: the positions of the drawn screens.
GetDrawnScreens(ss) == Reverse(DrawnFrom(ss, Len(ss)))

\* Handler::draw_screen_ui ("handler") and draw_active_screen_ui ("mod"): the
\* screens rendered in the frame, in order, the last one focused.
DrawScreenUi(rev, ss) ==
    LET d == IF rev = "handler" THEN GetDrawnScreens(ss) ELSE <<Len(ss)>>
    IN  [i \in 1..Len(d) |-> [id |-> ss[d[i]].id, kind |-> ss[d[i]].kind,
                              focused |-> (i = Len(d))]]

\* What a step of the handler did: the step, the screen it looked at (-1
\* for none), the screens it pushed and the screens it popped.
CoreDid(op, examined, pushed, popped) ==
    [op |-> op, examined |-> examined, pushed |-> pushed, popped |-> popped]

StackIds(ss) == [i \in 1..Len(ss) |-> ss[i].id]

\* ScreenHandler::spawn_screen / Handler::spawn_screen: the push.
SpawnScreen(ss, child) == Append(ss, ScreenAndStateNew(child.req, child.name))

\* ScreenHandler::close_active_screen / Handler::close_screen: the pop.
CloseActiveScreen(ss) == SubSeq(ss, 1, Len(ss) - 1)

\* A quit that closes the screens from the bottom of the stack up.
QuitClosesBottomUp(ss) == StackIds(ss)

RECURSIVE QuitCloses(_)
\* The loop of Handler::quit: the screens whose close hook is called, in the
\* order of the calls; each is popped right after its hook.
QuitCloses(ss) ==
    IF ss = <<>> THEN <<>>
    ELSE <<ss[Len(ss)].id>> \o QuitCloses(CloseActiveScreen(ss))

\* unset_global_terminal_rules: all of it, or an error from disable_raw_mode
\* or from the execute! that leaves the alternate screen.
UnsetOutcomes(t) == {ResetTerminalRules, t, "alt_cooked"}

\* How Handler::quit can end on the stack ss and the terminal t: all screens
\* closed and the rules unset (ok), all screens closed and the rules not
\* unset, or, in core/mod.rs, where close_screen clears the terminal first,
\* an error after n screens.
QuitOutcomes(rev, ss, t) ==
    {[stack |-> <<>>, closed |-> QuitCloses(ss), term |-> u, ok |-> u = ResetTerminalRules] :
        u \in UnsetOutcomes(t)}
    \cup (IF rev = "mod"
          THEN {[stack |-> SubSeq(ss, 1, Len(ss) - n), closed |-> SubSeq(QuitCloses(ss), 1, n),
                 term |-> t, ok |-> FALSE] : n \in 0..(Len(ss) - 1)}
          ELSE {})

\* Handler::quit ending as o; the handler returns to its caller and the loop
\* of run ends, with the error if there was one.
CoreQuit(o) ==
    /\ stack' = o.stack
    /\ term' = o.term
    /\ result' = IF o.ok THEN result ELSE "Err"
    /\ pc' = "done"

\* Handler::startup up to the loop of run.
CoreStartup ==
    /\ prog = "core"
    /\ pc = "startup"
    /\ \E t \in SetTerminalRulesOutcomes :
        /\ term' = t
        /\ IF t = "alt"
           THEN /\ stack' = <<ScreenAndStateNew(0, "Welcome")>>
                /\ coreLast' = CoreDid("startup", -1, <<0>>, <<>>)
                /\ \E ok \in BOOLEAN :
                     IF coreRev = "handler" \/ ok
                     THEN /\ pc' = IF coreRev = "handler" THEN "draw" ELSE "pass"
                          /\ drawn' = IF coreRev = "handler" THEN drawn
                                      ELSE DrawScreenUi(coreRev, stack')
                          /\ UNCHANGED result
                     ELSE /\ pc' = "done"
                          /\ result' = "Err"
                          /\ UNCHANGED drawn
           ELSE /\ pc' = "done"
                /\ result' = "Err"
                /\ UNCHANGED <<stack, coreLast, drawn>>
    /\ UNCHANGED <<prog, hookRev, searchVars, routed, scrollVars, loopVars, send_error, mmVars, uiVars, lastEvent, coreRev, nReq, requested, spawned, nRouted,
                   run_state, tick_event_buffer, event_channel, nSent, nHandled, nDelivered,
                   nProduced, msgTerm, panicked, taskVars, stopVars>>

\* Handler::run of core/handler.rs: draw_screen_ui, then poll.
CoreDraw ==
    /\ prog = "core"
    /\ coreRev = "handler"
    /\ pc = "draw"
    /\ \E ok \in BOOLEAN :
        IF ok
        THEN /\ drawn' = DrawScreenUi(coreRev, stack)
             /\ pc' = "poll"
             /\ UNCHANGED result
        ELSE /\ pc' = "done"
             /\ result' = "Err"
             /\ UNCHANGED drawn
    /\ coreLast' = CoreDid("draw", -1, <<>>, <<>>)
    /\ UNCHANGED <<prog, hookRev, searchVars, routed, scrollVars, loopVars, send_error, mmVars, uiVars, lastEvent, coreRev, stack, nReq, requested, spawned,
                   nRouted, run_state, tick_event_buffer, event_channel, nSent, nHandled,
                   nDelivered, nProduced, termVars, taskVars, stopVars>>

\* poll finds no event within the frame time: the loop draws again.
CorePollNone ==
    /\ prog = "core"
    /\ coreRev = "handler"
    /\ pc = "poll"
    /\ pc' = "draw"
    /\ coreLast' = CoreDid("poll", -1, <<>>, <<>>)
    /\ UNCHANGED <<prog, hookRev, searchVars, routed, scrollVars, loopVars, send_error, mmVars, uiVars, lastEvent, coreRev, stack, drawn, nReq, requested,
                   spawned, nRouted, run_state, tick_event_buffer, event_channel, result, nSent,
                   nHandled, nDelivered, nProduced, termVars, taskVars, stopVars>>

\* The active screen receives e: Screen::event and then handle_event
\* ("handler"), or the event method of the boxed screen ("mod").
RouteOutcomes(s, e) ==
    IF coreRev = "handler"
    THEN {<<ScreenEventDefault(s, e)[1] \o o[1], ScreenEventDefault(s, e)[2] \/ o[2]>> :
            o \in HandleEventOutcomes(s, e)}
    ELSE BoxedEventOutcomes(s, e)

\* Handler::handle_terminal_event: the quit controls, the redraw on Resize,
\* then the event goes to the active screen. In core/handler.rs it follows a
\* successful poll and read, in core/mod.rs it reads the event itself.
HandleTerminalEvent ==
    /\ prog = "core"
    /\ pc = IF coreRev = "handler" THEN "poll" ELSE "event"
    /\ nRouted < MaxCoreEvents
    /\ nRouted' = nRouted + 1
    /\ \E e \in CoreEvents :
        /\ lastEvent' = e
        /\ IF CheckQuitControls(coreRev, e)
           THEN /\ \E o \in QuitOutcomes(coreRev, stack, term) :
                     /\ CoreQuit(o)
                     /\ coreLast' = CoreDid("quit", -1, <<>>, o.closed)
                /\ UNCHANGED <<drawn, nReq, requested>>
           ELSE /\ term' = term
                /\ \E ok \in BOOLEAN :
                     IF e = "Resize" /\ ~ok
                     THEN /\ pc' = "done"
                          /\ result' = "Err"
                          /\ coreLast' = CoreDid("draw", -1, <<>>, <<>>)
                          /\ UNCHANGED <<stack, drawn, nReq, requested>>
                     ELSE /\ drawn' = IF e = "Resize" THEN DrawScreenUi(coreRev, stack) ELSE drawn
                          /\ result' = result
                          /\ IF stack = <<>>
                             THEN /\ pc' = "done"
                                  /\ coreLast' = CoreDid("event", -1, <<>>, <<>>)
                                  /\ UNCHANGED <<stack, nReq, requested>>
                             ELSE \E o \in RouteOutcomes(stack[Len(stack)], e) :
                                   /\ stack' = [stack EXCEPT ![Len(stack)] = Routed(@, o[1], o[2])]
                                   /\ nReq' = nReq + Len(o[1])
                                   /\ requested' = requested \o
                                                   [i \in 1..Len(o[1]) |-> nReq + i]
                                   /\ coreLast' = CoreDid("event", stack[Len(stack)].id, <<>>, <<>>)
                                   /\ pc' = "pass"
    /\ UNCHANGED <<prog, hookRev, searchVars, routed, scrollVars, loopVars, send_error, mmVars, uiVars, coreRev, spawned,
                   run_state, tick_event_buffer, event_channel, nSent, nHandled, nDelivered,
                   nProduced, msgTerm, panicked, taskVars, stopVars>>

\* A pass that spawns the child before it closes the active screen, so that
\* the screen closed and popped is the child.
HandleActiveScreenSpawnFirst(ss) ==
    LET active == ss[Len(ss)]
        created == TakeScreenCreated(active)[1]
        taken == [ss EXCEPT ![Len(ss)] = TakeScreenCreated(active)[2]]
        grown == IF created # <<>> THEN SpawnScreen(taken, created[1]) ELSE taken
    IN  <<IF active.open_status = "Closed" THEN CloseActiveScreen(grown) ELSE grown,
          created,
          IF active.open_status = "Closed" THEN <<grown[Len(grown)].id>> ELSE <<>>>>

\* Handler::handle_active_screen of core/handler.rs, on a stack that is not
\* empty: <<stack afterwards, children spawned, screens popped>>.
HandleActiveScreenHandler(ss) ==
    LET active == ss[Len(ss)]
        created == TakeScreenCreated(active)[1]
        taken == [ss EXCEPT ![Len(ss)] = TakeScreenCreated(active)[2]]
        closed == IF active.open_status = "Closed" THEN CloseActiveScreen(taken) ELSE taken
    IN  <<IF created # <<>> THEN SpawnScreen(closed, created[1]) ELSE closed,
          created,
          IF active.open_status = "Closed" THEN <<active.id>> ELSE <<>>>>

\* A pass that puts the child in the place of the screen that asked for it.
HandleActiveScreenSwitch(ss) ==
    LET active == ss[Len(ss)]
        created == TakeScreenCreated(active)[1]
    IN  IF created # <<>>
        THEN <<SpawnScreen(CloseActiveScreen(ss), created[1]), created, <<active.id>>, ss>>
        ELSE IF active.open_status = "Closed"
             THEN <<CloseActiveScreen(ss), <<>>, <<active.id>>, ss>>
             ELSE <<ss, <<>>, <<>>, ss>>

\* Handler::handle_active_screen of core/mod.rs, on a stack that is not
\* empty: a closing screen is closed and what it asked for is dropped. The
\* game selection does not forget what it asked for. The fourth component is
\* the stack once the slot has been looked at.
HandleActiveScreenMod(ss) ==
    LET active == ss[Len(ss)]
        created == TakeScreenCreated(active)[1]
        taken == IF active.name = "GameSearch" THEN ss
                 ELSE [ss EXCEPT ![Len(ss)] = TakeScreenCreated(active)[2]]
    IN  IF active.open_status = "Closed"
        THEN <<CloseActiveScreen(taken), <<>>, <<active.id>>, taken>>
        ELSE <<IF created # <<>> THEN SpawnScreen(taken, created[1]) ELSE taken,
               created, <<>>, taken>>

\* A check that never finds the stack empty.
QuitWhenNoScreensNever(ss) == FALSE

\* The test of Handler::quit_when_no_screens: quit, and leave the loop.
QuitWhenNoScreens(ss) == ss = <<>>

\* One pass of Handler::handle_active_screen, with the quit when no screen is
\* left before or after it. Handler::spawn_screen and close_screen of
\* core/mod.rs also clear the terminal, which may fail.
HandleActiveScreen ==
    /\ prog = "core"
    /\ pc = "pass"
    /\ IF QuitWhenNoScreens(stack)
       THEN /\ \E o \in QuitOutcomes(coreRev, stack, term) :
                 /\ CoreQuit(o)
                 /\ coreLast' = CoreDid("pass", -1, <<>>, o.closed)
            /\ UNCHANGED spawned
       ELSE LET r == IF coreRev = "handler" THEN HandleActiveScreenHandler(stack)
                     ELSE HandleActiveScreenMod(stack)
            IN  /\ spawned' = spawned \o [i \in 1..Len(r[2]) |-> r[2][i].req]
                /\ \E ok \in BOOLEAN :
                     IF ~ok /\ coreRev = "mod" /\ (r[2] # <<>> \/ r[3] # <<>>)
                     THEN /\ stack' = IF r[3] # <<>> THEN r[4] ELSE r[1]
                          /\ coreLast' = CoreDid("pass", stack[Len(stack)].id,
                                                 [i \in 1..Len(r[2]) |-> r[2][i].req], <<>>)
                          /\ result' = "Err"
                          /\ pc' = "done"
                          /\ term' = term
                     ELSE /\ coreLast' = CoreDid("pass", stack[Len(stack)].id,
                                                 [i \in 1..Len(r[2]) |-> r[2][i].req], r[3])
                          /\ IF QuitWhenNoScreens(r[1])
                             THEN \E o \in QuitOutcomes(coreRev, r[1], term) : CoreQuit(o)
                             ELSE /\ stack' = r[1]
                                  /\ term' = term
                                  /\ result' = result
                                  /\ pc' = IF coreRev = "handler" THEN "draw" ELSE "event"
    /\ requested' = <<>>
    /\ UNCHANGED <<prog, hookRev, searchVars, routed, scrollVars, loopVars, send_error, mmVars, uiVars, lastEvent, coreRev, drawn, nReq, nRouted,
                   run_state, tick_event_buffer, event_channel, nSent, nHandled, nDelivered,
                   nProduced, msgTerm, panicked, taskVars, stopVars>>

(***************************************************************************)
(* Initial states and specifications.                                      *)
(***************************************************************************)
HookRevs == {"service", "panic_rs"}

\* The state of the driver and of the Tui right after construction.
FreshApp ==
    /\ pc = CASE prog \in {"app", "bus"} -> "run" [] prog = "ui" -> "ui"
              [] prog = "round" -> "drain"
              [] prog = "handle" -> "handle"
              [] prog = "scroll" -> "new"
              [] prog = "search" -> "default"
              [] prog = "core" -> "startup" [] OTHER -> "idle"
    /\ run_state = [k |-> "Pending", forced |-> FALSE]
    /\ tick_event_buffer = <<>>
    /\ event_channel = <<>>
    /\ result = "Ok"
    /\ term = "cooked"
    /\ msgTerm = "none"
    /\ panicked = FALSE
    /\ tuiQ = <<>>
    /\ rx_alive = TRUE
    /\ tasks = <<"spawned">>
    /\ cancelled = {}
    /\ aborted = {}
    /\ cancel_timer = 0
    /\ aborting = FALSE
    /\ stop_result = "none"
    /\ nEmitted = 0
    /\ nIn = 0
    /\ nSent = 0
    /\ nHandled = 0
    /\ nDelivered = 0
    /\ nProduced = 0
    /\ eofSeen = FALSE
    /\ send_error = "none"

\* TuiAppMiddleman::new / Default.
FreshMm ==
    /\ input_buffer = <<>>
    /\ mmIn = "none"
    /\ mmOut = <<>>

\* Ui::new / ScreenHandler::new.
FreshUi ==
    /\ ui_run_state = "Running"
    /\ screens = <<>>
    /\ ui_events = <<>>
    /\ uiLast = Did("new", <<>>, 0, 0, 0)
    /\ nPushed = 0
    /\ routed = NotRouted

\* Tui::event_loop before its first await: an interval completes its first
\* tick at once, nothing has been read from the terminal.
FreshLoop ==
    /\ tick_interval = TRUE
    /\ render_interval = TRUE
    /\ event_stream = 0
    /\ sent = <<"none", "none">>
    /\ tracker = NoTracker
    /\ scrollLast = ScrollDid("none", FALSE)
    /\ search_term = <<>>
    /\ typed = NoKey

\* Handler::default / Handler::new.
FreshCore ==
    /\ stack = <<>>
    /\ drawn = <<>>
    /\ coreLast = CoreDid("new", -1, <<>>, <<>>)
    /\ nReq = 0
    /\ requested = <<>>
    /\ spawned = <<>>
    /\ nRouted = 0
    /\ lastEvent = "none"

InitApp ==
    /\ prog = "app"
    /\ hookRev \in HookRevs
    /\ mmRev = "mod"
    /\ uiRev = "ui"
    /\ FreshApp
    /\ FreshMm
    /\ FreshUi
    /\ coreRev = "handler"
    /\ FreshCore
    /\ FreshLoop

InitUi ==
    /\ prog = "ui"
    /\ hookRev = "service"
    /\ mmRev = "mod"
    /\ uiRev \in UiRevs
    /\ FreshApp
    /\ FreshMm
    /\ FreshUi
    /\ coreRev = "handler"
    /\ FreshCore
    /\ FreshLoop

InitMm ==
    /\ prog = "mm"
    /\ hookRev = "service"
    /\ mmRev \in MmRevs
    /\ uiRev = "ui"
    /\ FreshApp
    /\ FreshMm
    /\ FreshUi
    /\ coreRev = "handler"
    /\ FreshCore
    /\ FreshLoop

TaskNext ==
    \/ TaskNoop
    \/ \E t \in 1..Len(tasks) : TaskHello(t)
    \/ \E t \in 1..Len(tasks) : TaskSelect(t)

NextApp ==
    \/ AppRun
    \/ AppHandleTuiEvent
    \/ AppDrainOne
    \/ AppDrainEnd
    \/ AppCheckQuit
    \/ ProducerSendQuit
    \/ TuiDrop
    \/ AppPanic
    \/ TaskNext

SpecApp == InitApp /\ [][NextApp]_vars

InitTui ==
    /\ prog = "tui"
    /\ hookRev = "service"
    /\ mmRev = "mod"
    /\ uiRev = "ui"
    /\ FreshApp
    /\ FreshMm
    /\ FreshUi
    /\ coreRev = "handler"
    /\ FreshCore
    /\ FreshLoop

NextTui ==
    \/ TuiEnter
    \/ TuiNextEvent
    \/ StopBegin
    \/ StopIter
    \/ StopReturnOk
    \/ TaskNext
    \/ \E t \in 1..Len(tasks) : TaskAborted(t)

SpecTui == InitTui /\ [][NextTui]_vars

InitLife ==
    /\ prog = "life"
    /\ hookRev = "service"
    /\ mmRev = "mod"
    /\ uiRev = "ui"
    /\ FreshApp
    /\ FreshMm
    /\ FreshUi
    /\ coreRev = "handler"
    /\ FreshCore
    /\ FreshLoop

NextLife ==
    \/ LifeStart
    \/ LifeStop
    \/ LifeDrop
    \/ TaskNext

SpecLife == InitLife /\ [][NextLife]_vars

NextMm == MmHandleTuiEvent

NextUi ==
    \/ UiPush
    \/ UiClose
    \/ UiQuit
    \/ UiUpdate
    \/ UiEventRouted
    \/ UiProducerSend
    \/ UiReceiverDropped

SpecUi == InitUi /\ [][NextUi]_vars

InitRound ==
    /\ prog = "round"
    /\ hookRev = "service"
    /\ mmRev = "mod"
    /\ uiRev = "ui"
    /\ FreshApp
    /\ FreshMm
    /\ FreshUi
    /\ coreRev = "handler"
    /\ FreshCore
    /\ FreshLoop

NextRound ==
    \/ RoundPush
    \/ RoundClose
    \/ RoundProducerSend
    \/ RoundDrainOne
    \/ RoundDrainEnd
    \/ RoundUpdate

\* The owner keeps running its rounds.
RoundFairness ==
    /\ WF_vars(RoundDrainOne)
    /\ WF_vars(RoundDrainEnd)
    /\ WF_vars(RoundUpdate)

SpecRound == InitRound /\ [][NextRound]_vars /\ RoundFairness

InitScroll ==
    /\ prog = "scroll"
    /\ hookRev = "service"
    /\ mmRev = "mod"
    /\ uiRev = "ui"
    /\ FreshApp
    /\ FreshMm
    /\ FreshUi
    /\ coreRev = "handler"
    /\ FreshCore
    /\ FreshLoop

NextScroll ==
    \/ ScrollNewStep
    \/ ScrollForwardStep
    \/ ScrollBackwardStep
    \/ SetLengthStep
    \/ SetDisplayCountStep
    \/ IncreaseSearchesShown
    \/ DecreaseSearchesShown

SpecScroll == InitScroll /\ [][NextScroll]_vars

InitSearch ==
    /\ prog = "search"
    /\ hookRev = "service"
    /\ mmRev = "mod"
    /\ uiRev = "ui"
    /\ FreshApp
    /\ FreshMm
    /\ FreshUi
    /\ coreRev = "handler"
    /\ FreshCore
    /\ FreshLoop

NextSearch ==
    \/ GameSelectionDefault
    \/ SearchType
    \/ SearchBackspace
    \/ SearchClear

SpecSearch == InitSearch /\ [][NextSearch]_vars

\* A handle made by ScreenHandle::new for one screen.
InitHandle ==
    /\ prog = "handle"
    /\ hookRev = "service"
    /\ mmRev = "mod"
    /\ uiRev = "ui"
    /\ FreshApp
    /\ FreshMm
    /\ ui_run_state = "Running"
    /\ screens = <<ScreenHandleNew(1)>>
    /\ ui_events = <<>>
    /\ uiLast = Did("push", <<>>, 0, 0, 0)
    /\ nPushed = 1
    /\ routed = NotRouted
    /\ coreRev = "handler"
    /\ FreshCore
    /\ FreshLoop

NextHandle == HandleRoute

SpecHandle == InitHandle /\ [][NextHandle]_vars

InitBus ==
    /\ prog = "bus"
    /\ hookRev = "service"
    /\ mmRev = "mod"
    /\ uiRev = "ui"
    /\ FreshApp
    /\ FreshMm
    /\ FreshUi
    /\ coreRev = "handler"
    /\ FreshCore
    /\ FreshLoop

NextBus ==
    \/ BusRun
    \/ BusHandleTuiEvent
    \/ AppDrainOne
    \/ AppDrainEnd
    \/ AppCheckQuit
    \/ ProducerSendQuit
    \/ BusReturn

SpecBus == InitBus /\ [][NextBus]_vars

\* The loop of App::handle_app_events is synchronous code: once entered it
\* keeps running.
DrainFairness ==
    /\ WF_vars(AppDrainOne)
    /\ WF_vars(AppDrainEnd)

SpecDrain == InitBus /\ [][NextBus]_vars /\ DrainFairness

InitLoop ==
    /\ prog = "loop"
    /\ hookRev = "service"
    /\ mmRev = "mod"
    /\ uiRev = "ui"
    /\ FreshApp
    /\ FreshMm
    /\ FreshUi
    /\ coreRev = "handler"
    /\ FreshCore
    /\ FreshLoop

NextLoop ==
    \/ LoopHello
    \/ LoopElapse("tick")
    \/ LoopElapse("render")
    \/ LoopInput
    \/ LoopCancel
    \/ LoopSelect

\* Time passes, the task is scheduled, and the select, which polls its
\* branches in random order, does not leave a branch that can complete
\* untaken for ever.
LoopFairness ==
    /\ WF_vars(LoopHello)
    /\ WF_vars(LoopElapse("tick"))
    /\ WF_vars(LoopElapse("render"))
    /\ WF_vars(LoopBranch("tick"))
    /\ WF_vars(LoopBranch("render"))

SpecLoop == InitLoop /\ [][NextLoop]_vars /\ LoopFairness

\* The driver of src/app.rs and the stack managers: every place where the
\* application is asked to quit.
SpecQuit == (InitApp \/ InitUi) /\ [][NextApp \/ NextUi]_vars

\* The driver of src/app.rs and the two middlemen: every place where input
\* events are buffered until the next tick.
InitCore ==
    /\ prog = "core"
    /\ hookRev = "service"
    /\ mmRev = "mod"
    /\ uiRev = "ui"
    /\ FreshApp
    /\ FreshMm
    /\ FreshUi
    /\ coreRev \in CoreRevs
    /\ FreshCore
    /\ FreshLoop

NextCore ==
    \/ CoreStartup
    \/ CoreDraw
    \/ CorePollNone
    \/ HandleTerminalEvent
    \/ HandleActiveScreen

SpecCore == InitCore /\ [][NextCore]_vars

\* The Tui started and restarted, the driver and the middlemen.
SpecHello == (InitLife \/ InitApp \/ InitMm) /\ [][NextLife \/ NextApp \/ NextMm]_vars

SpecTick == (InitApp \/ InitMm) /\ [][NextApp \/ NextMm]_vars

(***************************************************************************)
(* Properties.                                                             *)
(***************************************************************************)
\* The numbers of a sequence of inputs.
Ids(inputs) == [i \in 1..Len(inputs) |-> inputs[i].id]

\* The inputs carried by the events of kind k on the bus, in bus order.
BusInputs(k) ==
    Flatten([i \in 1..Len(event_channel) |->
                IF event_channel[i].ev.k = k THEN event_channel[i].ev.inputs ELSE <<>>])

\* The numbers of the input events waiting in the Tui channel.
TuiInputIds ==
    Flatten([i \in 1..Len(tuiQ) |-> IF tuiQ[i].k \in InputKinds THEN <<tuiQ[i].id>> ELSE <<>>])

Range(a, b) == [i \in 1..(b - a + 1) |-> a + i - 1]

\* The driver handles a Tick of the bus while inputs are buffered.
AppTickStep ==
    /\ prog = "app"
    /\ pc = "drain"
    /\ event_channel # <<>>
    /\ Head(event_channel).ev.k = "Tick"
    /\ tick_event_buffer # <<>>
    /\ nHandled' # nHandled

\* The middleman handles a Tick while inputs are buffered.
MmTickStep ==
    /\ prog = "mm"
    /\ mmIn' = "Tick"
    /\ input_buffer # <<>>

\* Every input read so far is, in order of arrival and exactly once: already
\* delivered, in a batch on its way, in the buffer, or not yet buffered.
InputsConserved ==
    /\ (prog = "app" /\ ProcessAlive) =>
          Ids(BusInputs("Events")) \o Ids(tick_event_buffer) \o Ids(BusInputs("Buffer"))
              \o TuiInputIds = Range(nDelivered + 1, nIn)
    /\ prog = "mm" =>
          /\ Len(mmOut) <= 1
          /\ Ids(Flatten([i \in 1..Len(mmOut) |-> Carried(mmOut[i])])) \o Ids(input_buffer)
                = Range(nDelivered - Len(Flatten([i \in 1..Len(mmOut) |-> Carried(mmOut[i])])) + 1, nIn)
          /\ mmIn = "Tick" => input_buffer = <<>>

\* C1: handling a Tick while N >= 1 inputs are buffered produces exactly one
\* batch event that carries exactly the buffered inputs in their order of
\* arrival, and leaves the buffer empty; no input is split, delivered twice or
\* left behind.
C1_TickFlush ==
    /\ []InputsConserved
    /\ [][/\ AppTickStep =>
               /\ event_channel' = Send(Tail(event_channel),
                                        EventApp(AppEvent("Events", FALSE, tick_event_buffer)), nSent)
               /\ tick_event_buffer' = <<>>
          /\ MmTickStep =>
               /\ Len(mmOut') = 1
               /\ Carried(mmOut'[1]) = input_buffer
               /\ input_buffer' = <<>>]_vars

\* A batch of two inputs is on the bus after a tick of the driver, or was just
\* handed over by a middleman.
C1_Witness ==
    \/ /\ prog = "app"
       /\ tick_event_buffer = <<>>
       /\ \E i \in 1..Len(event_channel) :
             /\ event_channel[i].ev.k = "Events"
             /\ Len(event_channel[i].ev.inputs) = 2
    \/ /\ prog = "mm"
       /\ mmRev = "util"
       /\ mmIn = "Tick"
       /\ mmOut # <<>>
       /\ Len(Carried(mmOut[1])) = 2

\* C8: the events of the bus are handled in the order they were sent, each
\* exactly once: what was sent and is not handled yet is on the bus, in order
\* of sending, and the event handled last is the one sent just before them.
C8_BusFifo ==
    prog = "app" =>
        /\ \A i \in 1..Len(event_channel) : event_channel[i].seq = nHandled + i
        /\ nHandled + Len(event_channel) = nSent

\* Two events were handled and two more wait on the bus.
C8_Witness ==
    /\ prog = "app"
    /\ nHandled >= 2
    /\ Len(event_channel) >= 2

\* A step by which stop() returns to its caller.
StopReturns ==
    /\ prog = "tui"
    /\ pc \in {"stop", "exit"}
    /\ pc' = "idle"

\* Task t puts an event into the Tui channel.
Emits(t) ==
    /\ Len(tuiQ') = Len(tuiQ) + 1
    /\ tuiQ'[Len(tuiQ')].task = t

\* C3: stop() returns success only when the event task is finished, and then
\* within the soft bound if it did not abort the task and within the hard
\* bound if it did; it reports the error exactly when the task is still not
\* finished one millisecond past the hard bound; the loop never runs longer
\* than that; and a finished task emits nothing any more.
C3_StopBounded ==
    /\ [](prog = "tui" => cancel_timer <= HardBoundMs)
    /\ [][StopReturns =>
            /\ stop_result' \in {"Ok", "Err"}
            /\ stop_result' = "Ok" =>
                 /\ tasks[Cur] = "done"
                 /\ tasks'[Cur] = "done"
                 /\ IF aborting
                    THEN cancel_timer > SoftBoundMs /\ cancel_timer <= HardBoundMs
                    ELSE cancel_timer <= SoftBoundMs
            /\ stop_result' = "Err" =>
                 /\ tasks[Cur] # "done"
                 /\ aborting
                 /\ cancel_timer = HardBoundMs]_vars
    /\ [][prog = "tui" =>
            \A t \in 1..Len(tasks) : tasks[t] = "done" => tasks'[t] = "done" /\ ~Emits(t)]_vars

\* stop() has returned success after it had to abort the event task.
C3_Witness ==
    /\ prog = "tui"
    /\ pc = "idle"
    /\ stop_result = "Ok"
    /\ Cur > 1
    /\ Cur \in aborted

\* C4: a task whose token was cancelled emits no Tick, Render or input event
\* (nor any other event of its loop) any more.
C4_NoEventAfterCancel ==
    [][\A t \in 1..Len(tasks) :
          t \in cancelled => ~(Emits(t) /\ tuiQ'[Len(tuiQ')].k # "Init")]_vars

\* The driver waits in next_event() and nothing can end the wait: the Tui
\* channel is empty, no event task runs any more, and the channel is not
\* closed because the Tui keeps a sender of its own.
DriverStuck ==
    /\ prog = "app"
    /\ pc = "recv"
    /\ tuiQ = <<>>
    /\ \A t \in 1..Len(tasks) : tasks[t] = "done"
    /\ SenderCount > 0

\* C5: once the raw event stream has closed and the event task has left its
\* loop, the driver is never left waiting in next_event() for an event that
\* cannot come.
C5_DriverNotStuck == ~(eofSeen /\ DriverStuck)

C2_PopOnFinish ==
    (prog = "ui" /\ uiLast.op = "update") =>
        /\ uiLast.removed <= 1
        /\ uiLast.state = "Finished" =>
              /\ uiLast.removed = 1
              /\ uiLast.popped = uiLast.active

\* The moves of a screen's run state that the state machine allows.
AllowedMoves ==
    {<<"Running", "Closing">>, <<"Closing", "Finished">>, <<"Running", "Finished">>}

\* C7: the run state of a screen only moves Running -> Closing,
\* Closing -> Finished or Running -> Finished; Finished is terminal and no
\* screen returns to Running.
C7_ScreenRunStateMachine ==
    [][\A i \in 1..Len(screens), j \in 1..Len(screens') :
          (screens[i].id = screens'[j].id /\ screens[i].run_state # screens'[j].run_state)
              => <<screens[i].run_state, screens'[j].run_state>> \in AllowedMoves]_vars

\* C9: the message of a fatal error is printed after the terminal has been
\* restored, never while raw mode or the alternate screen is still on.
C9_MessageAfterRestore ==
    prog = "app" => msgTerm \in {"none", "cooked"}

\* C10: a panic between entering the terminal and its restoration leaves the
\* terminal in cooked mode when the process exits.
C10_PanicRestores ==
    (prog = "app" /\ panicked /\ pc = "done") => term = "cooked"

\* C11: every start() leaves the task it spawns on a token that is not
\* cancelled and leaves the tokens of all the tasks spawned before cancelled,
\* and a task whose token is not cancelled ends only when its event stream
\* closes, never because of the cancellation of an earlier token.
C11_FreshToken ==
    /\ [](\A t \in 1..(Cur - 1) : t \in cancelled)
    /\ [][/\ Len(tasks') > Len(tasks) =>
                /\ Len(tasks') \notin cancelled'
                /\ \A t \in 1..Len(tasks) : t \in cancelled'
          /\ \A t \in 2..Len(tasks) :
                (tasks[t] # "done" /\ tasks'[t] = "done" /\ t \notin cancelled')
                    => (tasks[t] = "select" /\ eofSeen')]_vars

\* A stop() followed by a start(): the second event task is done and its
\* token cancelled, the third runs on a token that is not.
C11_Witness ==
    /\ prog = "life"
    /\ stop_result # "none"
    /\ Cur = 3
    /\ tasks[2] = "done" /\ 2 \in cancelled
    /\ tasks[3] = "select" /\ 3 \notin cancelled

\* The events of task t in the channel, in the order they were sent.
EventsOf(t) == SelectSeq(tuiQ, LAMBDA e : e.task = t)

\* The first event of every task is its Init and no later one is; a task that
\* has reached its loop has sent it.
HelloFirst ==
    \A t \in 2..Len(tasks) :
        LET es == EventsOf(t)
        IN  /\ tasks[t] = "spawned" => es = <<>>
            /\ tasks[t] = "select" => es # <<>>
            /\ es # <<>> => es[1].k = "Init"
            /\ \A i \in 2..Len(es) : es[i].k # "Init"

\* A step that sends an event sends Init exactly when the sending task had not
\* sent anything yet, and a task never goes back to its beginning.
HelloStep ==
    /\ \A t \in 1..Len(tasks) : tasks[t] # "spawned" => tasks'[t] # "spawned"
    /\ Len(tuiQ') = Len(tuiQ) + 1 =>
          LET ev == tuiQ'[Len(tuiQ')]
          IN  /\ ev.task \in 2..Len(tasks)
              /\ (ev.k = "Init") <=> (tasks[ev.task] = "spawned")
              /\ tasks'[ev.task] # "spawned"

\* The driver receiving Init changes neither the bus nor the tick buffer.
HelloOnlyLogged ==
    (prog = "app" /\ tuiQ # <<>> /\ Head(tuiQ).k = "Init" /\ tuiQ' = Tail(tuiQ))
        => UNCHANGED <<event_channel, tick_event_buffer, nSent, run_state>>

\* C12: every event task sends exactly one Init event, as its first event, and
\* neither the driver nor a middleman turns an Init (Hello) into an event for
\* the application: nothing on the bus, in the tick buffer or handed to the
\* App stems from it.
C12_HelloOnce ==
    /\ [](prog = "life" => HelloFirst)
    /\ [](\A i \in 1..Len(event_channel) : event_channel[i].ev.k \notin {"Init", "Hello"})
    /\ [](mmIn = "Hello" => mmOut = <<>>)
    /\ [](\A i \in 1..Len(mmOut) : mmOut[i].k \notin {"Init", "Hello"})
    /\ [][HelloStep /\ HelloOnlyLogged]_vars

\* Two starts, each task has sent its Init, the second another event after it.
C12_Witness ==
    /\ prog = "life"
    /\ Cur = 3
    /\ Len(EventsOf(2)) = 1
    /\ Len(EventsOf(3)) = 2
    /\ EventsOf(3)[2].k = "Key"

\* The active screen of the poll-based Handler.
Active == stack[Len(stack)]

\* The request made last since the last pass.
LastRequested == requested[Len(requested)]

\* C13: when the slot of the active screen was set several times since the
\* last pass, the pass spawns exactly one child, the one asked for last, and
\* puts it on top of the stack; and whenever a child is spawned at all it is
\* the one asked for last, so that an overwritten request is never spawned.
C13_SlotOverwrites ==
    /\ []((prog = "core" /\ coreRev = "handler" /\ pc = "pass" /\ requested # <<>>) =>
            /\ Active.screen_created # <<>>
            /\ Active.screen_created[1].req = LastRequested)
    /\ [][/\ (prog = "core" /\ coreRev = "handler" /\ pc = "pass" /\ Len(requested) >= 2) =>
                /\ coreLast'.pushed = <<LastRequested>>
                /\ spawned' = Append(spawned, LastRequested)
                /\ Len(stack') = Len(stack) + 1 - Len(coreLast'.popped)
                /\ stack'[Len(stack')] =
                       ScreenAndStateNew(LastRequested, Active.screen_created[1].name)
          /\ spawned' # spawned =>
                /\ pc = "pass"
                /\ requested # <<>>
                /\ spawned' = Append(spawned, LastRequested)]_vars

\* One event asked for two children; the pass spawned the second only.
C13_Witness ==
    /\ prog = "core" /\ coreRev = "handler"
    /\ nRouted = 1 /\ nReq = 2
    /\ coreLast.op = "pass"
    /\ coreLast.pushed = <<2>>
    /\ spawned = <<2>>
    /\ Len(stack) = 2 /\ stack[2].id = 2

\* The pass looks at the slot of a screen of core/handler.rs, or at the slot
\* of the welcome screen of core/mod.rs.
SlotTaken == prog = "core" /\ pc = "pass" /\ stack # <<>>
             /\ (coreRev = "handler" \/ Active.name = "Welcome")

\* C14: after a pass the slot of the screen the pass looked at is empty; a
\* pass over a filled slot spawns what the slot holds, no request is ever
\* spawned twice, and no pass pushes more than one screen.
C14_SlotConsumed ==
    /\ []((prog = "core" /\ coreLast.op = "pass") =>
            /\ Len(coreLast.pushed) <= 1
            /\ \A i \in 1..Len(stack) :
                 (stack[i].id = coreLast.examined
                    /\ (coreRev = "handler" \/ stack[i].name = "Welcome"))
                     => stack[i].screen_created = <<>>)
    /\ [](\A i, j \in 1..Len(spawned) : spawned[i] = spawned[j] => i = j)
    /\ [](\A i, j \in 1..Len(stack) : stack[i].id = stack[j].id => i = j)
    /\ [][/\ Len(stack') <= Len(stack) + 1
          /\ (SlotTaken /\ Active.screen_created # <<>>) =>
                /\ spawned' = Append(spawned, Active.screen_created[1].req)
                /\ coreLast'.pushed = <<Active.screen_created[1].req>>
                /\ stack'[Len(stack')].id = Active.screen_created[1].req
          /\ (SlotTaken /\ Active.screen_created = <<>>) =>
                /\ spawned' = spawned
                /\ Len(stack') <= Len(stack)]_vars

\* The welcome screen asked for a page once, the page was spawned and closed
\* again, and a later pass over the welcome screen spawned nothing.
C14_Witness ==
    /\ prog = "core" /\ coreRev = "handler"
    /\ nRouted = 3
    /\ coreLast = CoreDid("pass", 0, <<>>, <<>>)
    /\ spawned = <<1>>
    /\ Len(stack) = 1

\* The position of the topmost Normal screen of a stack that has one.
TopNormal(ss) ==
    CHOOSE i \in 1..Len(ss) :
        ss[i].kind = "Normal" /\ \A j \in (i + 1)..Len(ss) : ss[j].kind # "Normal"

OnlyWelcome ==
    /\ prog = "core" /\ coreRev = "mod"
    /\ Len(stack) = 1
    /\ stack[1].name = "Welcome" /\ stack[1].open_status = "Open"

\* C16: on the stack [Welcome], the event of an unmodified 'p' leaves in the
\* slot of the welcome screen a request for the game search and nothing
\* else changed, and the pass that follows makes the stack
\* [Welcome, GameSearch]: the same welcome screen below, a new game search
\* screen on top as the active screen.
C16_WelcomeToGameSearch ==
    [][/\ (OnlyWelcome /\ pc = "event" /\ nRouted' = nRouted + 1 /\ lastEvent' = "p") =>
            /\ pc' = "pass"
            /\ stack' = <<SetScreenCreated(stack[1], Child("GameSearch", nReq + 1))>>
       /\ (OnlyWelcome /\ pc = "pass" /\ lastEvent = "p") =>
            /\ Len(stack') = 2
            /\ stack'[1] = [stack[1] EXCEPT !.screen_created = <<>>]
            /\ stack'[2] = ScreenAndStateNew(nReq, "GameSearch")
            /\ coreLast'.pushed = <<nReq>> /\ coreLast'.popped = <<>>]_vars

\* The first event was 'p' and the pass after it is over.
C16_Witness ==
    /\ prog = "core" /\ coreRev = "mod"
    /\ nRouted = 1 /\ lastEvent = "p"
    /\ coreLast.op = "pass"
    /\ pc = "event"
    /\ Len(stack) = 2
    /\ stack[1].name = "Welcome" /\ stack[2].name = "GameSearch"

\* C17: a send that fails because the receiver is gone is returned to the
\* caller of the sending operation, by every producer: no producer keeps the
\* error to itself (logs it and returns normally).
C17_SendErrorReturned == [](send_error # "logged")

\* The propagating half of C17: Ui::update, like the driver's sends, hands
\* the failed send to its caller.
C17_UpdateReturnsSendError ==
    [][(prog = "ui" /\ ~rx_alive /\ uiLast'.op = "update" /\ uiLast' # uiLast
          /\ screens # <<>>
          /\ UpdateArm(uiRev, ui_run_state, screens[Len(screens)].run_state) = "send_close")
        => (result' = "Err" /\ send_error' = "returned")]_vars

\* C18: routing an event to the stack manager while the stack is empty is
\* reported as an error: the call returns Err, the process does not panic,
\* and the stack and the manager's run state are as they were.
C18_EmptyRoutingIsError ==
    [][(UiEventRouted /\ screens = <<>>)
        => (/\ result' = "Err"
            /\ ~panicked'
            /\ screens' = screens
            /\ ui_run_state' = ui_run_state)]_vars

\* What ScreenHandler::event alone does with an empty stack: the error, no
\* panic, nothing changed.
C18_HandlerReturnsError ==
    [][(UiEventRouted /\ screens = <<>> /\ uiRev = "handler")
        => (/\ result' = "Err"
            /\ ~panicked'
            /\ screens' = screens
            /\ ui_run_state' = ui_run_state)]_vars

\* C19: when Ui::update pops the last screen, or finds the stack already
\* empty, the manager's run state is Finished when update returns.
C19_FinishedWhenEmptied ==
    [][(/\ UiUpdate
        /\ uiRev = "ui"
        /\ \/ screens = <<>>
           \/ Len(screens) = 1 /\ screens' = <<>>)
        => ui_run_state' = "Finished"]_vars

\* Ui::update has just popped the last screen.
C19_Witness ==
    /\ prog = "ui"
    /\ uiRev = "ui"
    /\ uiLast.op = "update"
    /\ uiLast.removed = 1
    /\ uiLast.popped # 0
    /\ screens = <<>>
    /\ ui_run_state = "Finished"

\* C20: when the manager is Closing and the active screen is Running,
\* update() puts exactly one Close event on the event bus (the receiver being
\* there to take it), pops nothing, returns Ok(None) and changes neither the
\* manager's run state nor any screen.
C20_ClosingAsksActiveScreen ==
    [][(/\ UiUpdate
        /\ rx_alive
        /\ screens # <<>>
        /\ ui_run_state = "Closing"
        /\ screens[Len(screens)].run_state = "Running")
        => (/\ ui_events' = Append(ui_events, UiEvent("Close", <<>>))
            /\ screens' = screens
            /\ ui_run_state' = ui_run_state
            /\ uiLast'.popped = 0
            /\ uiLast'.removed = 0
            /\ result' = result
            /\ ~panicked')]_vars

\* update() has just asked the running active screen to close.
C20_Witness ==
    /\ prog = "ui"
    /\ rx_alive
    /\ uiLast.op = "update"
    /\ uiLast.state = "Running"
    /\ ui_run_state = "Closing"
    /\ screens # <<>>
    /\ uiLast.active = screens[Len(screens)].id
    /\ ui_events # <<>>
    /\ ui_events[Len(ui_events)] = UiEvent("Close", <<>>)

\* C21: when the manager's own run state is Finished, update() is a no-op
\* whatever the state of the active screen: nothing is popped, no screen's
\* update hook is called, no event is sent, the run state stays Finished.
C21_FinishedIsNoOp ==
    [][(UiUpdate /\ ui_run_state = "Finished")
        => (/\ screens' = screens
            /\ ui_events' = ui_events
            /\ ui_run_state' = "Finished"
            /\ uiLast'.popped = 0
            /\ screens # <<>> =>
                 UpdateArm(uiRev, ui_run_state, screens[Len(screens)].run_state)
                   = "nothing")]_vars

\* What ScreenHandler::update alone does when the manager is Finished.
C21_HandlerFinishedIsNoOp ==
    [][(UiUpdate /\ ui_run_state = "Finished" /\ uiRev = "handler")
        => (/\ screens' = screens
            /\ ui_events' = ui_events
            /\ ui_run_state' = "Finished"
            /\ uiLast'.popped = 0
            /\ screens # <<>> =>
                 UpdateArm(uiRev, ui_run_state, screens[Len(screens)].run_state)
                   = "nothing")]_vars

\* C22: as long as the terminal event task runs and is not cancelled, Tick
\* events and Render events each keep being sent, however many raw input
\* events arrive: a behaviour in which the task runs for ever sends
\* infinitely many of each.
C22_TimersKeepFiring ==
    \/ <>(~LoopRunning)
    \/ /\ []<>(sent[1] = "Tick")
       /\ []<>(sent[1] = "Render")

\* A Tick is sent right after an input event while more input is waiting.
C22_Witness ==
    /\ LoopRunning
    /\ sent = <<"Tick", "Key">>
    /\ event_stream = MaxPending

\* C23: indicate_quit does nothing when the app is already quitting: once
\* the run state is Quitting(f) no step changes it, whatever Quit(f') is
\* handled later; the flag of the first request stays.
C23_FirstQuitStays ==
    [][run_state.k = "Quitting" => run_state' = run_state]_vars

\* Two Quit events were sent and the drain has handled everything on the
\* bus: the second Quit was handled while the app was already quitting.
C23_Witness ==
    /\ prog = "bus"
    /\ pc = "drain"
    /\ nProduced = 2
    /\ event_channel = <<>>
    /\ nHandled = nSent
    /\ run_state.k = "Quitting"

InStop == prog = "tui" /\ pc \in {"stop", "exit"}

\* The step of stop() that calls event_task.abort().
AbortIssued == InStop /\ StopIter /\ aborting' /\ ~aborting

\* The step of stop() that returns the error.
StopFails == InStop /\ StopIter /\ stop_result' = "Err"

\* C24: in stop() the token is cancelled before anything else; the abort is
\* issued only once more than 100 ms have passed with the task unfinished,
\* and once per call; the error is returned only once more than 200 ms have
\* passed with the task unfinished, and only after the abort.
C24_TwoPhaseStop ==
    /\ [](InStop => Cur \in cancelled)
    /\ [](InStop /\ aborting => cancel_timer > SoftBoundMs /\ Cur \in aborted)
    /\ [][AbortIssued => /\ cancel_timer' > SoftBoundMs
                         /\ ~IsFinished(Cur)
                         /\ aborted' = aborted \cup {Cur}]_vars
    /\ [][(InStop /\ StopIter /\ aborting) => aborted' = aborted]_vars
    /\ [][(InStop /\ aborting /\ pc' = pc) => aborting']_vars
    /\ [][StopFails => /\ cancel_timer + OneMs > HardBoundMs
                       /\ ~IsFinished(Cur)
                       /\ aborting
                       /\ Cur \in aborted]_vars

\* stop() has given up on a task it had cancelled and aborted.
C24_Witness ==
    /\ prog = "tui"
    /\ pc = "idle"
    /\ stop_result = "Err"
    /\ Cur \in cancelled
    /\ Cur \in aborted
    /\ tasks[Cur] # "done"

\* The run-state steps a screen may take while the stack is closed.
ClosingStep(a, b) ==
    \/ a = b
    \/ a = "Running" /\ b = "Closing"
    \/ a = "Closing" /\ b = "Finished"

ClosedWithChild ==
    /\ prog = "core"
    /\ coreRev = "handler"
    /\ stack # <<>>
    /\ Active.open_status = "Closed"
    /\ Active.screen_created # <<>>

\* C26: a pass that finds the active screen Closed with a pending child pops
\* the active screen and then pushes the child, which takes its place: the
\* depth is unchanged, the screens below are untouched, and the application
\* does not quit, even when the closed screen was the only one.
C26_Replace ==
    [][(HandleActiveScreen /\ ClosedWithChild)
        => LET child == Active.screen_created[1]
           IN  /\ stack' = Append(SubSeq(stack, 1, Len(stack) - 1),
                                  ScreenAndStateNew(child.req, child.name))
               /\ Len(stack') = Len(stack)
               /\ coreLast'.popped = <<Active.id>>
               /\ coreLast'.pushed = <<child.req>>
               /\ pc' # "done"
               /\ result' = result
               /\ term' = term]_vars

\* A pass has just put a child in the place of the only screen.
C26_Witness ==
    /\ prog = "core"
    /\ coreRev = "handler"
    /\ coreLast.op = "pass"
    /\ coreLast.popped # <<>>
    /\ coreLast.pushed # <<>>
    /\ Len(stack) = 1
    /\ stack[1].id = coreLast.pushed[1]
    /\ pc # "done"

\* Handler::run has returned Ok.
RunReturnedOk == prog = "core" /\ pc = "done" /\ result = "Ok"

\* C27: in the poll-based Handler, quitting, by a quit key or by the last
\* screen closing, calls the close hook of every screen still on the stack
\* once, from the top down, leaves the stack empty and then unsets the
\* terminal rules; run() returns Ok only after that, and it happens once per
\* run.
C27_QuitClosesAll ==
    /\ [](RunReturnedOk => stack = <<>> /\ term = ResetTerminalRules)
    /\ [](prog = "core" =>
            \A i, j \in 1..Len(stack) : i # j => stack[i].id # stack[j].id)
    /\ [][(prog = "core" /\ pc # "done" /\ RunReturnedOk')
           => \/ /\ coreLast'.op = "quit"
                 /\ coreLast'.popped = Reverse(StackIds(stack))
              \/ /\ coreLast'.op = "pass"
                 /\ Len(stack) = 1
                 /\ coreLast'.popped = <<stack[1].id>>
                 /\ coreLast'.pushed = <<>>]_vars
    /\ [][(prog = "core" /\ term = "alt" /\ term' # term) => pc' = "done"]_vars
    /\ [][(prog = "core" /\ pc = "done") => UNCHANGED <<pc, stack, term, result>>]_vars

\* A quit key has closed a stack of two screens and run() has returned Ok.
C27_Witness ==
    /\ RunReturnedOk
    /\ coreLast.op = "quit"
    /\ Len(coreLast.popped) = 2
    /\ stack = <<>>
    /\ term = ResetTerminalRules

\* Enter was pressed on a selected entry of the game selection of
\* core/mod.rs: the screen holds the game's screen and the next pass is due.
GameSelected ==
    /\ prog = "core" /\ coreRev = "mod" /\ pc = "pass" /\ stack # <<>>
    /\ lastEvent = "Enter"
    /\ Active.name = "GameSearch"
    /\ Active.screen_created # <<>>

\* C28: after Enter on a selected entry of the game selection, the next pass
\* of handle_active_screen that succeeds spawns the screen created by the
\* selected game and makes it the active screen.
C28_SelectedGameSpawned ==
    [][(GameSelected /\ HandleActiveScreen /\ result' # "Err")
        => /\ stack' # <<>>
           /\ stack'[Len(stack')].name = Active.screen_created[1].name
           /\ stack'[Len(stack')].id = Active.screen_created[1].req
           /\ coreLast'.pushed = <<Active.screen_created[1].req>>]_vars

\* What the pass of core/mod.rs does instead: the game selection is closed
\* and popped, nothing is spawned, and the screen below it is active again
\* (the handler quits when there is none).
C28_SelectedGameDropped ==
    [][(GameSelected /\ HandleActiveScreen /\ result' # "Err")
        => /\ coreLast'.popped = <<Active.id>>
           /\ coreLast'.pushed = <<>>
           /\ spawned' = spawned
           /\ stack' = SubSeq(stack, 1, Len(stack) - 1) \/ stack' = <<>>]_vars

\* A game was selected in the game selection opened from the welcome screen.
C28_Witness ==
    /\ GameSelected
    /\ Len(stack) = 2
    /\ stack[1].name = "Welcome"
    /\ Active.screen_created[1].name = "MinesweeperSetup"

\* A call of ScreenHandle::event that did not return an error.
Routing == prog = "handle" /\ HandleRoute /\ result' # "Err"

\* What the claim says of the call that routed e to the handle h, leaving
\* the handle h2, the event hook having got the sequence got.
ForwardedAsClaimed(e, h, h2, got) ==
    CASE e.k = "Tick" ->
            /\ h2 = h
            /\ Len(got) = Len(e.arg)
            /\ \A i \in 1..Len(got) : got[i] = Hooked(UiEvent(e.arg[i], <<>>), h)
            /\ \A i \in 1..Len(got) : got[i].event # e
      [] e.k \in ScreenEvents ->
            /\ e.k = "Close" => h2 = [h EXCEPT !.run_state = "Closing"]
            /\ e.k = "Finish" => h2 = [h EXCEPT !.run_state = "Finished"]
            /\ e.k = "Rename" => h2 = [h EXCEPT !.title = e.arg]
            /\ got = <<Hooked(e, h2)>>
      [] OTHER ->
            /\ h2 = h
            /\ got = <<Hooked(e, h)>>

\* C29: a Tick routed to a ScreenHandle reaches the event hook as one
\* Event::Input per buffered input, in buffer order, and never as the Tick;
\* a ScreenEvent is applied to the handle's state and then forwarded exactly
\* once; every other event is forwarded unchanged exactly once.
C29_EventForwarding ==
    [][Routing => ForwardedAsClaimed(routed'.event, screens[1], screens'[1],
                                     routed'.hooked)]_vars

\* The same for every event but ScreenEvent::Error and ScreenEvent::Create,
\* which end the call in a panic with nothing forwarded; and a call that
\* returns an error has forwarded a prefix of what it had to forward.
C29_ForwardingButTodo ==
    /\ [][(Routing /\ ~HandleScreenEventTodo(routed'.event))
            => /\ ~panicked'
               /\ ForwardedAsClaimed(routed'.event, screens[1], screens'[1],
                                      routed'.hooked)]_vars
    /\ [][(Routing /\ HandleScreenEventTodo(routed'.event))
            => panicked' /\ routed'.hooked = <<>> /\ screens' = screens]_vars
    /\ [][(prog = "handle" /\ HandleRoute /\ result' = "Err")
            => \E n \in 0..Len(Forwarded(routed'.event)) :
                 \A i \in 1..Len(routed'.hooked) :
                    /\ Len(routed'.hooked) = n
                    /\ routed'.hooked[i].event = Forwarded(routed'.event)[i]]_vars

\* A Tick with two different inputs was routed and the call returned Ok.
C29_Witness ==
    /\ prog = "handle"
    /\ result = "Ok"
    /\ routed.event = UiEvent("Tick", <<"Mouse", "Key">>)
    /\ Len(routed.hooked) = 2
    /\ routed.hooked[1].event.k = "Mouse"

\* App::handle_app_events is running.
InDrain == prog = "bus" /\ pc = "drain"

\* The kind of the event at the front of the bus.
FrontKind == Head(event_channel).ev.k

\* C30: each call of handle_app_events ends, and when it returns Ok the bus
\* is empty and everything sent so far, by handlers during the drain too,
\* has been handled; a handler sends at most one event, only tick (an
\* Events batch, the buffer left empty) and resize (a Render) send any, and
\* handling an Events batch or a Render sends nothing, so that no event
\* sent during a drain leads to a further one.
C30_DrainTerminatesEmpty ==
    /\ InDrain ~> ~InDrain
    /\ [][(InDrain /\ ~InDrain')
            => \/ result' = "Err"
               \/ event_channel' = <<>> /\ nHandled' = nSent']_vars
    /\ [][(InDrain /\ AppDrainOne /\ result' # "Err")
            => /\ nSent' \in {nSent, nSent + 1}
               /\ nSent' = nSent + 1 =>
                    /\ FrontKind \in {"Tick", "Resize"}
                    /\ event_channel'[Len(event_channel')].seq = nSent'
                    /\ event_channel'[Len(event_channel')].ev.k =
                          (IF FrontKind = "Tick" THEN "Events" ELSE "Render")
                    /\ FrontKind = "Tick" =>
                          /\ tick_event_buffer # <<>>
                          /\ tick_event_buffer' = <<>>
                          /\ event_channel'[Len(event_channel')].ev.inputs = tick_event_buffer
               /\ FrontKind \in {"Events", "Render"} => nSent' = nSent
               /\ nHandled' = Head(event_channel).seq]_vars

\* A drain has ended with the bus empty after handlers sent two events in
\* it or in the drains before.
C30_Witness ==
    /\ prog = "bus"
    /\ pc = "check"
    /\ result = "Ok"
    /\ event_channel = <<>>
    /\ nHandled = nSent
    /\ nSent >= nEmitted + nProduced + 2

\* An event is routed by the manager of src/ui/mod.rs while it is Closing,
\* that is, during a close that is not forced.
RoutedWhileClosing ==
    /\ prog = "ui" /\ uiRev = "ui"
    /\ ui_run_state = "Closing"
    /\ UiEventRouted

\* C31: during a non-forced close the close hook of a screen runs at most
\* once: an event routed to a screen that is already Closing or Finished
\* does not run its close hook.
C31_CloseHookOnce ==
    [][(RoutedWhileClosing /\ uiLast'.state \in {"Closing", "Finished"})
        => uiLast'.closes = 0]_vars

\* The close hook of the active screen runs exactly when a Close is routed
\* to it, whatever its run state.
C31_CloseHookPerClose ==
    [][(RoutedWhileClosing /\ screens # <<>>)
        => uiLast'.closes = (IF Head(ui_events).k = "Close" THEN 1 ELSE 0)]_vars

\* C32: the run state of the stack manager of src/ui/mod.rs is Finished
\* only if its screen stack is empty.
C32_FinishedOnlyIfEmpty ==
    (prog = "ui" /\ uiRev = "ui" /\ ui_run_state = "Finished") => screens = <<>>

\* The manager becomes Finished only on an empty stack, and once it is
\* Finished only push_active_screen puts a screen under it.
C32_FinishedUntilPush ==
    /\ [][(prog = "ui" /\ uiRev = "ui" /\ ui_run_state # "Finished"
            /\ ui_run_state' = "Finished") => screens' = <<>>]_vars
    /\ [][(prog = "ui" /\ uiRev = "ui" /\ ui_run_state = "Finished"
            /\ screens = <<>> /\ screens' # <<>>)
           => /\ uiLast'.op = "push"
              /\ ui_run_state' = "Finished"]_vars

\* The loop of Handler::run is running.
InCoreLoop == prog = "core" /\ pc \in {"draw", "poll", "event", "pass"}

\* C33: in the poll-based Handler the stack is not empty while the loop of
\* run is running, so that every draw, every routing of a terminal event
\* (with its redraw on Resize) and every pass over the active screen starts
\* with a screen on the stack; and a frame that was drawn holds at least one
\* screen, the last one focused.
C33_StackNonEmpty ==
    /\ [](InCoreLoop => stack # <<>>)
    /\ [][(prog = "core" /\ drawn' # drawn)
            => /\ drawn' # <<>>
               /\ drawn'[Len(drawn')].focused]_vars

\* The loop has drawn the welcome screen again after a screen spawned above
\* it was closed.
C33_Witness ==
    /\ prog = "core"
    /\ pc = "poll"
    /\ coreLast.op = "draw"
    /\ spawned # <<>>
    /\ Len(stack) = 1
    /\ stack[1].name = "Welcome"
    /\ drawn # <<>>

\* The call op has just returned, no subtraction having underflowed, on a
\* tracker that had an item selected.
ScrolledFromSelected(op) ==
    /\ prog = "scroll"
    /\ pc = "scroll"
    /\ tracker.selected # <<>>
    /\ scrollLast' # scrollLast \/ tracker' # tracker
    /\ scrollLast'.op = op
    /\ ~scrollLast'.under

\* The index after i and the index before i in a list of n items, going
\* round.
NextIndex(i, n) == IF i = n - 1 THEN 0 ELSE i + 1
PrevIndex(i, n) == IF i = 0 THEN n - 1 ELSE i - 1

\* C34: with an item selected, scroll_forward selects the next index, going
\* from the last item back to the first, and scroll_backward selects the
\* index before, going from the first item to the last.
C34_ForwardIsNext ==
    /\ [][ScrolledFromSelected("scroll_forward")
            => tracker'.selected = <<NextIndex(tracker.selected[1], tracker.length)>>]_vars
    /\ [][ScrolledFromSelected("scroll_backward")
            => tracker'.selected = <<PrevIndex(tracker.selected[1], tracker.length)>>]_vars

\* What the two methods do: scroll_forward selects the index before and
\* scroll_backward the index after.
C34_ForwardIsPrevious ==
    /\ [][ScrolledFromSelected("scroll_forward")
            => tracker'.selected = <<PrevIndex(tracker.selected[1], tracker.length)>>]_vars
    /\ [][ScrolledFromSelected("scroll_backward")
            => tracker'.selected = <<NextIndex(tracker.selected[1], tracker.length)>>]_vars

\* The selected item, if there is one, is an item of the list and is among
\* the items get_displayed_range gives.
SelectedIsDisplayed ==
    tracker.selected # <<>> =>
        /\ tracker.selected[1] < tracker.length
        /\ GetDisplayedRange(tracker)[1] <= tracker.selected[1]
        /\ tracker.selected[1] < GetDisplayedRange(tracker)[2]

\* C35: after any sequence of scroll_forward, scroll_backward, set_length and
\* set_display_count calls, an item that is selected has an index below
\* length and inside the range get_displayed_range returns.
C35_SelectedIsDisplayed == prog = "scroll" => SelectedIsDisplayed

\* The calls that keep the selected item displayed: every call on a tracker
\* that displays at least one item, except a set_display_count.
C35_DisplayedUnlessCountSet ==
    [][(/\ ScrollRunning
        /\ SelectedIsDisplayed
        /\ tracker.range # <<>> => tracker.range[1] >= 1
        /\ scrollLast'.op # "set_display_count")
       => SelectedIsDisplayed']_vars

\* C36: no ScrollTracker operation performs an unsigned subtraction that
\* underflows, for every list length and every sequence of new, set_length,
\* set_range, scroll_up and scroll_down calls.
C36_NoUnderflow == prog = "scroll" => ~scrollLast.under

\* Where no subtraction underflows: scrolling a tracker of at least one
\* item whose range is at least 1 and at most its length.
C36_NoUnderflowInRange ==
    [][(/\ ScrollRunning
        /\ tracker.length >= 1
        /\ tracker.range # <<>>
        /\ 1 <= tracker.range[1]
        /\ tracker.range[1] <= tracker.length
        /\ scrollLast'.op \in {"scroll_forward", "scroll_backward"})
       => ~scrollLast'.under]_vars

\* The game-search flow: the range was left above the length of the list
\* by a set_length, and the scroll from the first item underflowed.
C36_UnderflowAfterRefill ==
    /\ prog = "scroll"
    /\ scrollLast = ScrollDid("scroll_forward", TRUE)
    /\ tracker.length >= 1
    /\ tracker.range # <<>>
    /\ tracker.range[1] > tracker.length

\* add_character_to_term has just been called with the key typed'.
TermKeyTyped ==
    /\ prog = "search"
    /\ pc = "search"
    /\ typed'.code = "Char"
    /\ typed'.modifiers \in {"NONE", "SHIFT"}

\* The characters of the term.
TermLength == IF search_term = <<>> THEN 0 ELSE Len(search_term[1])

\* The character add_character_to_term appends for the key k.
TypedChar(k) == IF k.modifiers = "SHIFT" THEN UppercaseChar(k.ch) ELSE k.ch

\* C37: add_character_to_term appends the typed character while the term is
\* below the cap of 256 characters and otherwise leaves the term as it is;
\* typing never aborts the program, and the term is never longer than the
\* cap.
C37_TermCapped ==
    /\ [](prog = "search" => ~panicked)
    /\ [](prog = "search" => TermLength <= DocumentedTermCap)
    /\ [][TermKeyTyped =>
            IF TermLength < DocumentedTermCap
            THEN /\ search_term' # <<>>
                 /\ search_term'[1] =
                        (IF search_term = <<>> THEN <<>> ELSE search_term[1])
                            \o <<TypedChar(typed')>>
            ELSE search_term' = search_term]_vars

\* What the code does: the character is appended while the term has fewer
\* than 100 bytes, a key typed into a term of 100 bytes or more panics, and
\* the term never has more than 256 characters.
C37_PanicsAtTermByteCap ==
    /\ [](prog = "search" => TermLength <= DocumentedTermCap)
    /\ [][TermKeyTyped =>
            IF search_term = <<>> \/ StrLen(search_term[1]) < TermByteCap
            THEN /\ ~panicked'
                 /\ search_term' # <<>>
                 /\ search_term'[1] =
                        (IF search_term = <<>> THEN <<>> ELSE search_term[1])
                            \o <<TypedChar(typed')>>
            ELSE panicked' /\ search_term' = search_term]_vars
====
